---------------------------- MODULE Spec2Model ----------------------------
(***************************************************************************)
(* Constellation matcher (src/lib/constellationMatcher.ts) and reference   *)
(* library (src/data/constellations.ts).                                   *)
(*                                                                         *)
(* Number model.  The program computes with IEEE doubles.  Here            *)
(*   - input coordinates, centroids, centred coordinates and the scale are *)
(*     exact rationals [n |-> numerator, d |-> denominator > 0], reduced;  *)
(*   - Math.sqrt is exact on squares of rationals; an irrational root is   *)
(*     written s * sqrt(m) and sqrt(m) is truncated to a few digits;       *)
(*   - the coordinates normalizePoints returns, squared distances and the  *)
(*     MSE are fixed-point integers (units 1/Unit, resp. 1/Unit^2);        *)
(*   - Math.exp is evaluated to 1/ExpUnit; a similarity is an integer in   *)
(*     units of 1/SimOne.                                                  *)
(* Rounding of the doubles below these resolutions is not modelled, with   *)
(* one exception: where all points of a set coincide, getCentroid and      *)
(* centerPoints are computed in doubles (section IEEE 754 doubles), since  *)
(* there the rounding decides the branch of getScale's "|| 1".             *)
(***************************************************************************)
EXTENDS Integers, Sequences, FiniteSets, TLC

\* ------------------------------------------------------------------------
\* Arithmetic
\* ------------------------------------------------------------------------

\* Resolution of a normalized coordinate: one unit is 1/Unit.
Unit == 10^3

\* Resolution of Math.exp's result: one unit is 1/ExpUnit.
ExpUnit == 10^4

\* Tenths: the point-count penalty is a multiple of 0.1 (calculateSimilarity).
PenaltyOne == 10

\* A similarity of 1.0, in similarity units (ExpUnit * PenaltyOne).
SimOne == ExpUnit * PenaltyOne

\* JavaScript's Infinity (bestDist's start value, the MSE of no pairs): above
\* every finite value the model computes.
Infinity == 2147483647

\* LET x == e IN F(x), with e evaluated once and x bound to its value.
Bind(e, F(_)) == CHOOSE r \in {F(x) : x \in {e}} : TRUE

Abs(a) == IF a < 0 THEN 0 - a ELSE a

Max(a, b) == IF a >= b THEN a ELSE b

Min(a, b) == IF a <= b THEN a ELSE b

Sign(a) == IF a < 0 THEN 0 - 1 ELSE IF a > 0 THEN 1 ELSE 0

RECURSIVE Gcd(_, _)
Gcd(a, b) == IF b = 0 THEN a ELSE Gcd(b, a % b)

\* The rational a/b (b # 0), reduced, with a positive denominator.
Rat(a, b) ==
    LET g == Gcd(Abs(a), Abs(b))
        s == IF b < 0 THEN 0 - 1 ELSE 1
    IN  [n |-> s * (a \div g), d |-> s * (b \div g)]

Zero == Rat(0, 1)

RAdd(p, q) ==
    LET g == Gcd(p.d, q.d)
    IN  Rat(p.n * (q.d \div g) + q.n * (p.d \div g), (p.d \div g) * q.d)

RSub(p, q) == RAdd(p, [n |-> 0 - q.n, d |-> q.d])

RMul(p, q) ==
    LET g1 == Gcd(Abs(p.n), q.d)
        g2 == Gcd(Abs(q.n), p.d)
    IN  Rat((p.n \div g1) * (q.n \div g2), (p.d \div g2) * (q.d \div g1))

\* p / k for an integer k > 0.
RDivInt(p, k) ==
    LET g == Gcd(Abs(p.n), k)
    IN  Rat(p.n \div g, p.d * (k \div g))

\* Integer division rounding to nearest, symmetric about zero (a, b integers, b > 0).
RoundDiv(a, b) == Sign(a) * ((2 * Abs(a) + b) \div (2 * b))

\* floor(a * m / b) for a, m >= 0 and b > 0, without forming a * m.
MulDiv(a, m, b) == (a \div b) * m + ((a % b) * m) \div b

\* Integer square root: the largest r with r * r <= a.
RECURSIVE ISqrtBits(_, _, _)
ISqrtBits(a, r, bit) ==
    IF bit = 0 THEN r
    ELSE IF r + bit <= a \div (r + bit)
         THEN ISqrtBits(a, r + bit, bit \div 2)
         ELSE ISqrtBits(a, r, bit \div 2)

ISqrt(a) == ISqrtBits(a, 0, 32768)

\* a = SquarePart(a)^2 * Kernel(a), taking out the squares of 2, 3, 5 and 7.
RECURSIVE SquarePartBy(_, _)
SquarePartBy(a, p) ==
    IF a > 0 /\ a % (p * p) = 0 THEN p * SquarePartBy(a \div (p * p), p) ELSE 1

SquarePart(a) ==
    Bind(SquarePartBy(a, 2), LAMBDA s2 :
    Bind(SquarePartBy(a \div (s2 * s2), 3), LAMBDA s3 :
    Bind(SquarePartBy(a \div (s2 * s2 * s3 * s3), 5), LAMBDA s5 :
    Bind(SquarePartBy(a \div (s2 * s2 * s3 * s3 * s5 * s5), 7), LAMBDA s7 :
         s2 * s3 * s5 * s7))))

\* The digits kept of the square root of a kernel m: a power of ten p with
\* m * p * p below 2^31.
RootDigits(m) ==
    IF m < 2000 THEN 1000
    ELSE IF m < 200000 THEN 100
    ELSE IF m < 20000000 THEN 10
    ELSE 1

\* Math.sqrt on an integer a >= 0, as a rational: exact when a is a square.
SqrtInt(a) ==
    IF a = 0 THEN Zero
    ELSE Bind(SquarePart(a), LAMBDA s :
         Bind(a \div (s * s), LAMBDA m :
         Bind(RootDigits(m), LAMBDA p :
              Rat(s * ISqrt(m * p * p), p))))

\* Math.sqrt on a rational r >= 0.  With r.d = s^2 * m, sqrt(n/d) is
\* sqrt(n * m) / (s * m).
Sqrt(r) ==
    Bind(SquarePart(r.d), LAMBDA s :
    Bind(r.d \div (s * s), LAMBDA m :
         RMul(SqrtInt(r.n * m), Rat(1, s * m))))

\* p / q for rationals, q > 0.
RDiv(p, q) == RMul(p, [n |-> q.d, d |-> q.n])

\* A rational rounded to the nearest multiple of 1/Unit, as an integer count
\* of units.
Fix(q) == Sign(q.n) * ((MulDiv(2 * Abs(q.n), Unit, q.d) + 1) \div 2)

\* ------------------------------------------------------------------------
\* IEEE 754 doubles
\* ------------------------------------------------------------------------
\* The sums, the quotient and the differences of getCentroid and
\* centerPoints are rounded to doubles.  Where all points of a set coincide
\* this rounding decides whether a centred coordinate is 0, and with it the
\* branch "totalDist / n || 1" of getScale; there the operations are computed
\* as the processor computes them: the exact result, rounded to 53 bits, ties
\* to even.  Exponents stay far inside the range of a double: overflow and
\* subnormal numbers are not modelled.

\* A natural number of any size is the sequence of its digits in base
\* LimbBase, least significant first, without leading zeros; 0 is <<>>.
LimbBase == 2^15

\* Bits of a double's significand.
MantissaBits == 53

\* Bits by which a dividend is extended before a division: the quotient has
\* more than MantissaBits + 1 bits for every divisor below LimbBase.
DivShift == 75

RECURSIVE BigTrim(_)
BigTrim(a) ==
    IF a = <<>> THEN a
    ELSE IF a[Len(a)] = 0 THEN BigTrim(SubSeq(a, 1, Len(a) - 1)) ELSE a

RECURSIVE BigFromInt(_)
BigFromInt(n) ==
    IF n = 0 THEN <<>> ELSE <<n % LimbBase>> \o BigFromInt(n \div LimbBase)

\* The value of a, which is below 2^31.
RECURSIVE BigToInt(_)
BigToInt(a) ==
    IF a = <<>> THEN 0 ELSE a[1] + LimbBase * BigToInt(Tail(a))

BigLimb(a, i) == IF i <= Len(a) THEN a[i] ELSE 0

RECURSIVE BigAddFrom(_, _, _, _)
BigAddFrom(a, b, i, carry) ==
    IF i > Max(Len(a), Len(b))
    THEN IF carry = 0 THEN <<>> ELSE <<carry>>
    ELSE Bind(BigLimb(a, i) + BigLimb(b, i) + carry, LAMBDA s :
              <<s % LimbBase>> \o BigAddFrom(a, b, i + 1, s \div LimbBase))

BigAdd(a, b) == BigAddFrom(a, b, 1, 0)

\* a - b from digit i on, for a >= b.
RECURSIVE BigSubFrom(_, _, _, _)
BigSubFrom(a, b, i, borrow) ==
    IF i > Len(a) THEN <<>>
    ELSE Bind(a[i] - BigLimb(b, i) - borrow, LAMBDA d :
              IF d < 0
              THEN <<d + LimbBase>> \o BigSubFrom(a, b, i + 1, 1)
              ELSE <<d>> \o BigSubFrom(a, b, i + 1, 0))

BigSub(a, b) == BigTrim(BigSubFrom(a, b, 1, 0))

RECURSIVE BigCmpFrom(_, _, _)
BigCmpFrom(a, b, i) ==
    IF i = 0 THEN 0
    ELSE IF a[i] # b[i] THEN Sign(a[i] - b[i])
    ELSE BigCmpFrom(a, b, i - 1)

\* -1, 0 or 1 as a is below, equal to or above b.
BigCmp(a, b) ==
    IF Len(a) # Len(b) THEN Sign(Len(a) - Len(b)) ELSE BigCmpFrom(a, b, Len(a))

\* a * c for 0 <= c <= LimbBase.
RECURSIVE BigMulSmallFrom(_, _, _, _)
BigMulSmallFrom(a, c, i, carry) ==
    IF i > Len(a)
    THEN IF carry = 0 THEN <<>> ELSE <<carry>>
    ELSE Bind(a[i] * c + carry, LAMBDA p :
              <<p % LimbBase>> \o BigMulSmallFrom(a, c, i + 1, p \div LimbBase))

BigMulSmall(a, c) == BigTrim(BigMulSmallFrom(a, c, 1, 0))

\* Quotient q and remainder r of the digits 1..i of a, with r carried in from
\* the digits above, by c, 0 < c <= LimbBase.
RECURSIVE BigDivSmallFrom(_, _, _, _)
BigDivSmallFrom(a, c, i, r) ==
    IF i = 0 THEN [q |-> <<>>, r |-> r]
    ELSE Bind(r * LimbBase + a[i], LAMBDA cur :
         Bind(BigDivSmallFrom(a, c, i - 1, cur % c), LAMBDA rest :
              [q |-> Append(rest.q, cur \div c), r |-> rest.r]))

BigDivSmall(a, c) ==
    Bind(BigDivSmallFrom(a, c, Len(a), 0), LAMBDA d :
         [q |-> BigTrim(d.q), r |-> d.r])

RECURSIVE IntBitLen(_)
IntBitLen(n) == IF n = 0 THEN 0 ELSE 1 + IntBitLen(n \div 2)

BigBitLen(a) ==
    IF a = <<>> THEN 0 ELSE 15 * (Len(a) - 1) + IntBitLen(a[Len(a)])

BigIsOdd(a) == a # <<>> /\ a[1] % 2 = 1

\* a * 2^k.
BigShl(a, k) ==
    IF a = <<>> THEN a
    ELSE [i \in 1..(k \div 15) |-> 0] \o BigMulSmall(a, 2^(k % 15))

\* A double is sign * m * 2^e: s is the sign, 1 or -1, m a natural number
\* below 2^MantissaBits (2^MantissaBits itself after a carry), 0 for 0.
DblZero == [s |-> 1, m |-> <<>>, e |-> 0]

\* Round to nearest, ties to even: the double nearest to s * m * 2^e, where
\* sticky tells that bits below m were dropped already.
RECURSIVE DblRound(_, _, _, _)
DblRound(s, m, e, sticky) ==
    Bind(BigBitLen(m) - MantissaBits, LAMBDA k :
         IF k <= 0 THEN [s |-> s, m |-> m, e |-> e]
         ELSE IF k > 14
         THEN Bind(BigDivSmall(m, 2^14), LAMBDA d :
                   DblRound(s, d.q, e + 14, sticky \/ d.r # 0))
         ELSE Bind(BigDivSmall(m, 2^k), LAMBDA d :
                   LET half == 2^(k - 1)
                       up   == \/ d.r > half
                               \/ d.r = half /\ (sticky \/ BigIsOdd(d.q))
                   IN  [s |-> s,
                        m |-> IF up THEN BigAdd(d.q, <<1>>) ELSE d.q,
                        e |-> e + k]))

\* a + b.
DblAdd(a, b) ==
    IF a.m = <<>> THEN b
    ELSE IF b.m = <<>> THEN a
    ELSE Bind(Min(a.e, b.e), LAMBDA e :
         Bind(BigShl(a.m, a.e - e), LAMBDA am :
         Bind(BigShl(b.m, b.e - e), LAMBDA bm :
              IF a.s = b.s THEN DblRound(a.s, BigAdd(am, bm), e, FALSE)
              ELSE Bind(BigCmp(am, bm), LAMBDA c :
                   IF c = 0 THEN DblZero
                   ELSE IF c > 0 THEN DblRound(a.s, BigSub(am, bm), e, FALSE)
                   ELSE DblRound(b.s, BigSub(bm, am), e, FALSE)))))

\* a - b.
DblSub(a, b) == DblAdd(a, [s |-> 0 - b.s, m |-> b.m, e |-> b.e])

\* a / n for an integer n, 0 < n < LimbBase.
DblDivInt(a, n) ==
    IF a.m = <<>> THEN a
    ELSE Bind(BigDivSmall(BigShl(a.m, DivShift), n), LAMBDA d :
              DblRound(a.s, d.q, a.e - DivShift, d.r # 0))

\* The double of a decimal literal or a quotient of integers: the double
\* nearest to the rational q, for a denominator below LimbBase.
DblFromRat(q) ==
    DblDivInt([s |-> IF q.n < 0 THEN 0 - 1 ELSE 1,
               m |-> BigFromInt(Abs(q.n)), e |-> 0], q.d)

\* ------------------------------------------------------------------------
\* Point sets (src/lib/constellationMatcher.ts)
\* ------------------------------------------------------------------------

\* Point2D with integer coordinates, as exact rationals.
Pt(x, y) == [x |-> Rat(x, 1), y |-> Rat(y, 1)]

\* points.reduce((acc, p) => ({x: acc.x + p.x, y: acc.y + p.y}), {x: 0, y: 0})
RECURSIVE SumPoints(_, _)
SumPoints(points, i) ==
    IF i = 0 THEN [x |-> Zero, y |-> Zero]
    ELSE LET acc == SumPoints(points, i - 1)
         IN  [x |-> RAdd(acc.x, points[i].x), y |-> RAdd(acc.y, points[i].y)]

getCentroid(points) ==
    LET n == Len(points)
    IN  IF n = 0 THEN [x |-> Zero, y |-> Zero]
        ELSE Bind(SumPoints(points, n), LAMBDA sum :
                  [x |-> RDivInt(sum.x, n), y |-> RDivInt(sum.y, n)])

\* centerPoints that leaves the points where they are.
centerPointsNowhere(points) == points

\* centerPoints with y centred on centroid.x: what centring buys is lost.
centerPointsOnX(points) ==
    Bind(getCentroid(points), LAMBDA centroid :
         [i \in 1..Len(points) |->
             [x |-> RSub(points[i].x, centroid.x),
              y |-> RSub(points[i].y, centroid.x)]])

\* centerPoints about the first point of the array instead of the centroid:
\* where a point set lands depends on the order of its points.
centerPointsOnFirst(points) ==
    [i \in 1..Len(points) |->
        [x |-> RSub(points[i].x, points[1].x),
         y |-> RSub(points[i].y, points[1].y)]]

centerPoints(points) ==
    Bind(getCentroid(points), LAMBDA centroid :
         [i \in 1..Len(points) |->
             [x |-> RSub(points[i].x, centroid.x),
              y |-> RSub(points[i].y, centroid.y)]])

\* points.reduce((sum, p) => sum + Math.sqrt(p.x * p.x + p.y * p.y), 0)
RECURSIVE SumDist(_, _)
SumDist(points, i) ==
    IF i = 0 THEN Zero
    ELSE RAdd(SumDist(points, i - 1),
              Sqrt(RAdd(RMul(points[i].x, points[i].x),
                        RMul(points[i].y, points[i].y))))

\* getScale that measures nothing: every point set has scale 1.
getScaleOne(points) == Rat(1, 1)

\* totalDist / n || 1: a quotient of 0 is falsy and gives 1.
getScale(points) ==
    LET n == Len(points)
    IN  IF n = 0 THEN Rat(1, 1)
        ELSE Bind(RDivInt(SumDist(points, n), n), LAMBDA mean :
                  IF mean.n = 0 THEN Rat(1, 1) ELSE mean)

\* All points of the set are the same point.
Coincident(points) ==
    Len(points) > 0 /\ \A i \in 1..Len(points) : points[i] = points[1]

\* getCentroid's reduce in doubles: the sums of the first i points, each
\* addition rounded.
RECURSIVE SumPointsDouble(_, _)
SumPointsDouble(points, i) ==
    IF i = 0 THEN [x |-> DblZero, y |-> DblZero]
    ELSE Bind(SumPointsDouble(points, i - 1), LAMBDA acc :
              [x |-> DblAdd(acc.x, DblFromRat(points[i].x)),
               y |-> DblAdd(acc.y, DblFromRat(points[i].y))])

\* getCentroid in doubles, for a set that is not empty.
getCentroidDouble(points) ==
    Bind(SumPointsDouble(points, Len(points)), LAMBDA sum :
         [x |-> DblDivInt(sum.x, Len(points)),
          y |-> DblDivInt(sum.y, Len(points))])

\* centerPoints in doubles: p.x - centroid.x, p.y - centroid.y.
centerPointsDouble(points) ==
    Bind(getCentroidDouble(points), LAMBDA centroid :
         [i \in 1..Len(points) |->
             [x |-> DblSub(DblFromRat(points[i].x), centroid.x),
              y |-> DblSub(DblFromRat(points[i].y), centroid.y)]])

\* The least exponent among the coordinates that are not 0; 0 if all are 0.
LeastExponent(centered) ==
    LET es == {centered[i].x.e : i \in {j \in 1..Len(centered) :
                                          centered[j].x.m # <<>>}}
              \cup {centered[i].y.e : i \in {j \in 1..Len(centered) :
                                          centered[j].y.m # <<>>}}
    IN  IF es = {} THEN 0 ELSE CHOOSE e \in es : \A f \in es : e <= f

\* The double a as an integer count of units of 2^e, e at most a's exponent.
InUnitsOf(a, e) == a.s * BigToInt(BigShl(a.m, a.e - e))

\* Centred points that are rounding residues, in units of the smallest of
\* them (a power of two), as exact rationals.  Scaling by a power of two is
\* exact in doubles, and x / scale is the same number in every unit.
Residues(centered) ==
    Bind(LeastExponent(centered), LAMBDA e :
         [i \in 1..Len(centered) |->
             [x |-> Rat(InUnitsOf(centered[i].x, e), 1),
              y |-> Rat(InUnitsOf(centered[i].y, e), 1)]])

\* The result's coordinates are fixed-point: integers in units of 1/Unit.
\* Where the points coincide the centred coordinates are what the rounding
\* of getCentroid leaves of them.
normalizePoints(points) ==
    Bind(IF Coincident(points) THEN Residues(centerPointsDouble(points))
         ELSE centerPoints(points), LAMBDA centered :
    Bind(getScale(centered), LAMBDA scale :
         [i \in 1..Len(centered) |->
             [x |-> Fix(RDiv(centered[i].x, scale)),
              y |-> Fix(RDiv(centered[i].y, scale))]]))

\* A distance that compares how far the two points are from the origin, not
\* where they are.
distanceSquaredRadial(a, b) ==
    Abs((a.x * a.x + a.y * a.y) - (b.x * b.x + b.y * b.y))

distanceSquared(a, b) ==
    LET dx == a.x - b.x
        dy == a.y - b.y
    IN  dx * dx + dy * dy

\* The inner loop with <= in place of <: of equally near reference points the
\* last one is taken.
RECURSIVE NearestUnusedLast(_, _, _, _, _)
NearestUnusedLast(u, refPoints, usedRefIndices, j, best) ==
    IF j > Len(refPoints) THEN best
    ELSE IF j \in usedRefIndices
         THEN NearestUnusedLast(u, refPoints, usedRefIndices, j + 1, best)
         ELSE Bind(distanceSquared(u, refPoints[j]), LAMBDA dist :
                   IF dist <= best.dist
                   THEN NearestUnusedLast(u, refPoints, usedRefIndices, j + 1,
                                          [idx |-> j, dist |-> dist])
                   ELSE NearestUnusedLast(u, refPoints, usedRefIndices, j + 1, best))

\* The inner loop of findBestCorrespondence over j: the nearest reference
\* point of u that is not used, as [idx, dist].  Reference indices are the
\* sequence's, 1..Len(refPoints); -1 stands for none.
RECURSIVE NearestUnused(_, _, _, _, _)
NearestUnused(u, refPoints, usedRefIndices, j, best) ==
    IF j > Len(refPoints) THEN best
    ELSE IF j \in usedRefIndices
         THEN NearestUnused(u, refPoints, usedRefIndices, j + 1, best)
         ELSE Bind(distanceSquared(u, refPoints[j]), LAMBDA dist :
                   IF dist < best.dist
                   THEN NearestUnused(u, refPoints, usedRefIndices, j + 1,
                                      [idx |-> j, dist |-> dist])
                   ELSE NearestUnused(u, refPoints, usedRefIndices, j + 1, best))

\* The outer loop that never marks a reference point as used: a reference
\* point can be given to several query points.
RECURSIVE CorrespondReusing(_, _, _, _, _)
CorrespondReusing(userPoints, refPoints, i, correspondence, usedRefIndices) ==
    IF i > Len(userPoints) THEN correspondence
    ELSE Bind(NearestUnused(userPoints[i], refPoints, usedRefIndices, 1,
                            [idx |-> 0 - 1, dist |-> Infinity]), LAMBDA best :
              IF best.idx # 0 - 1
              THEN CorrespondReusing(userPoints, refPoints, i + 1,
                                     [correspondence EXCEPT ![i] = best.idx],
                                     usedRefIndices)
              ELSE CorrespondReusing(userPoints, refPoints, i + 1,
                                     correspondence, usedRefIndices))

\* The outer loop over i, carrying correspondence and usedRefIndices.
RECURSIVE Correspond(_, _, _, _, _)
Correspond(userPoints, refPoints, i, correspondence, usedRefIndices) ==
    IF i > Len(userPoints) THEN correspondence
    ELSE Bind(NearestUnused(userPoints[i], refPoints, usedRefIndices, 1,
                            [idx |-> 0 - 1, dist |-> Infinity]), LAMBDA best :
              IF best.idx # 0 - 1
              THEN Correspond(userPoints, refPoints, i + 1,
                              [correspondence EXCEPT ![i] = best.idx],
                              usedRefIndices \cup {best.idx})
              ELSE Correspond(userPoints, refPoints, i + 1,
                              correspondence, usedRefIndices))

\* The sum of the squared distances of the first i query points to the
\* reference points that the assignment f gives them.
RECURSIVE AssignmentError(_, _, _, _)
AssignmentError(userPoints, refPoints, f, i) ==
    IF i = 0 THEN 0
    ELSE distanceSquared(userPoints[i], refPoints[f[i]])
             + AssignmentError(userPoints, refPoints, f, i - 1)

\* The assignments of pairwise distinct reference points to the first
\* min(|userPoints|, |refPoints|) query points.
Assignments(userPoints, refPoints) ==
    LET paired == Min(Len(userPoints), Len(refPoints))
    IN  {f \in [1..paired -> 1..Len(refPoints)] :
            \A i, j \in 1..paired : i # j => f[i] # f[j]}

\* The least sum of squared distances an assignment reaches.
MinimalError(userPoints, refPoints) ==
    LET errors == {AssignmentError(userPoints, refPoints, f, Len(f)) :
                      f \in Assignments(userPoints, refPoints)}
    IN  CHOOSE e \in errors : \A d \in errors : e <= d

\* findBestCorrespondence as a minimum-cost assignment: an assignment of
\* least total squared distance, whatever the order of the query points.
findBestCorrespondenceOptimal(userPoints, refPoints) ==
    Bind(MinimalError(userPoints, refPoints), LAMBDA least :
    Bind(CHOOSE f \in Assignments(userPoints, refPoints) :
             AssignmentError(userPoints, refPoints, f, Len(f)) = least, LAMBDA f :
         [i \in 1..Len(userPoints) |-> IF i <= Len(f) THEN f[i] ELSE 0 - 1]))

\* findBestCorrespondence with the first reference point never offered.
findBestCorrespondenceSkipFirst(userPoints, refPoints) ==
    Correspond(userPoints, refPoints, 1,
               [i \in 1..Len(userPoints) |-> 0 - 1], {1})

\* findBestCorrespondence that pairs by index: the i-th query point with the
\* i-th reference point.
findBestCorrespondenceByIndex(userPoints, refPoints) ==
    [i \in 1..Len(userPoints) |-> IF i <= Len(refPoints) THEN i ELSE 0 - 1]

findBestCorrespondence(userPoints, refPoints) ==
    Correspond(userPoints, refPoints, 1,
               [i \in 1..Len(userPoints) |-> 0 - 1], {})

\* The loop of calculateMSE, as [totalError, count].
RECURSIVE SumErrors(_, _, _, _)
SumErrors(userPoints, refPoints, correspondence, i) ==
    IF i = 0 THEN [totalError |-> 0, count |-> 0]
    ELSE Bind(SumErrors(userPoints, refPoints, correspondence, i - 1), LAMBDA acc :
              LET refIdx == correspondence[i]
              IN  IF refIdx >= 1 /\ refIdx <= Len(refPoints)
                  THEN [totalError |-> acc.totalError
                            + distanceSquared(userPoints[i], refPoints[refIdx]),
                        count |-> acc.count + 1]
                  ELSE acc)

\* calculateMSE that divides the mean by count once more.
calculateMSEDividedTwice(userPoints, refPoints, correspondence) ==
    Bind(SumErrors(userPoints, refPoints, correspondence, Len(userPoints)), LAMBDA acc :
         IF acc.count > 0 THEN RoundDiv(acc.totalError, acc.count * acc.count)
         ELSE Infinity)

\* calculateMSE that divides by the length of the query, not by count.
calculateMSEByLength(userPoints, refPoints, correspondence) ==
    Bind(SumErrors(userPoints, refPoints, correspondence, Len(userPoints)), LAMBDA acc :
         IF acc.count > 0 THEN RoundDiv(acc.totalError, Len(userPoints))
         ELSE Infinity)

\* In units of 1/Unit^2, rounded to the nearest unit.
calculateMSE(userPoints, refPoints, correspondence) ==
    Bind(SumErrors(userPoints, refPoints, correspondence, Len(userPoints)), LAMBDA acc :
         IF acc.count > 0 THEN RoundDiv(acc.totalError, acc.count) ELSE Infinity)

\* e^-k for k = 0..9 in units of 1/ExpUnit; below one unit from k = 10 on.
ExpTable == <<10000, 3679, 1353, 498, 183, 67, 25, 9, 3, 1>>

\* The alternating series of e^-f for 0 <= f < 1 (f in 1/ExpUnit): term i is
\* f^i / i!.
RECURSIVE ExpSeries(_, _, _, _)
ExpSeries(f, i, term, sum) ==
    IF term = 0 THEN sum
    ELSE Bind(RoundDiv(term * f, ExpUnit * i), LAMBDA next :
              ExpSeries(f, i + 1, next,
                        IF i % 2 = 1 THEN sum - next ELSE sum + next))

\* 1 - x in place of Math.exp(-x): the first two terms of the series only.
ExpNegLinear(x) ==
    IF x = Infinity THEN 0
    ELSE ExpUnit - x \div ((Unit * Unit) \div ExpUnit)

\* Math.exp(-x) for x >= 0 given in units of 1/Unit^2, in units of 1/ExpUnit.
\* Math.exp(-Infinity) is 0.
ExpNeg(x) ==
    IF x = Infinity THEN 0
    ELSE LET xe == x \div ((Unit * Unit) \div ExpUnit)
             k == xe \div ExpUnit
             f == xe % ExpUnit
         IN  IF k >= Len(ExpTable) THEN 0
             ELSE RoundDiv(ExpTable[k + 1] * ExpSeries(f, 1, ExpUnit, ExpUnit),
                           ExpUnit)

\* A penalty of 0.05 per point of difference: half the slope.
pointCountPenaltyHalfSlope(userPoints, refConstellation) ==
    LET pointCountDiff == Abs(Len(userPoints) - Len(refConstellation.points))
    IN  Max(0, PenaltyOne - pointCountDiff \div 2)

\* A penalty that falls only at every second point of difference.
pointCountPenaltyStepped(userPoints, refConstellation) ==
    LET pointCountDiff == Abs(Len(userPoints) - Len(refConstellation.points))
    IN  Max(0, PenaltyOne - 2 * (pointCountDiff \div 2))

\* Math.max(0, 1 - pointCountDiff * 0.1), in tenths: PenaltyOne is 1.0.
pointCountPenalty(userPoints, refConstellation) ==
    LET pointCountDiff == Abs(Len(userPoints) - Len(refConstellation.points))
    IN  Max(0, PenaltyOne - pointCountDiff)

\* Math.exp(-mse * 2) of the normalised, corresponded point sets, in units
\* of 1/ExpUnit.
rawSimilarity(userPoints, refConstellation) ==
    Bind(normalizePoints(userPoints), LAMBDA normalizedUser :
    Bind(normalizePoints(refConstellation.points), LAMBDA normalizedRef :
    Bind(findBestCorrespondence(normalizedUser, normalizedRef), LAMBDA correspondence :
    Bind(calculateMSE(normalizedUser, normalizedRef, correspondence), LAMBDA mse :
         ExpNeg(IF mse = Infinity THEN Infinity ELSE mse * 2)))))

\* In similarity units: SimOne is 1.0.
calculateSimilarity(userPoints, refConstellation) ==
    rawSimilarity(userPoints, refConstellation)
        * pointCountPenalty(userPoints, refConstellation)

\* ------------------------------------------------------------------------
\* Reference library (src/data/constellations.ts)
\* ------------------------------------------------------------------------

\* A Point2D of the library with its literals read as whole numbers: pixels,
\* not fractions of the picture.
P100Pixels(x, y) == [x |-> Rat(x, 1), y |-> Rat(y, 1)]

\* A Point2D written in hundredths, as the library's literals are.
P100(x, y) == [x |-> Rat(x, 100), y |-> Rat(y, 100)]

kurageConstellation ==
    [id |-> "kurage", name |-> "kurage-za",
     points |-> <<P100(55, 8), P100(28, 15), P100(78, 18), P100(50, 45),
                  P100(12, 85), P100(31, 98), P100(71, 88)>>,
     svgPath |-> "/constellations/kurage.svg"]

irukaConstellation ==
    [id |-> "iruka", name |-> "iruka-za",
     points |-> <<P100(12, 9), P100(28, 16), P100(51, 42), P100(91, 31),
                  P100(67, 79), P100(83, 93), P100(57, 94)>>,
     svgPath |-> "/constellations/iruka.svg"]

sasoriConstellation ==
    [id |-> "sasori", name |-> "sasori-za",
     points |-> <<P100(37, 20), P100(15, 40), P100(52, 39), P100(24, 50),
                  P100(37, 74), P100(90, 46), P100(70, 99)>>,
     svgPath |-> "/constellations/sasori.svg"]

pizzaConstellation ==
    [id |-> "pizza", name |-> "pi-za",
     points |-> <<P100(20, 90), P100(30, 48), P100(55, 42), P100(80, 50),
                  P100(35, 60), P100(50, 55), P100(65, 65)>>,
     svgPath |-> "/constellations/pizza.svg"]

swordConstellation ==
    [id |-> "sword", name |-> "za-sword",
     points |-> <<P100(25, 10), P100(15, 35), P100(35, 40), P100(10, 60),
                  P100(45, 65), P100(25, 75), P100(25, 90)>>,
     svgPath |-> "/constellations/sword.svg"]

eiConstellation ==
    [id |-> "ei", name |-> "ei-za",
     points |-> <<P100(55, 22), P100(8, 38), P100(92, 55), P100(50, 55),
                  P100(37, 65), P100(20, 80), P100(5, 95)>>,
     svgPath |-> "/constellations/ei.svg"]

gyozaConstellation ==
    [id |-> "gyoza", name |-> "gyo-za",
     points |-> <<P100(5, 72), P100(25, 58), P100(50, 52), P100(75, 58),
                  P100(87, 65), P100(45, 78), P100(65, 75)>>,
     svgPath |-> "/constellations/gyoza.svg"]

\* The shipped library, in authoring order.
ShippedConstellations ==
    <<kurageConstellation, irukaConstellation, sasoriConstellation,
      pizzaConstellation, swordConstellation, eiConstellation,
      gyozaConstellation>>

\* ------------------------------------------------------------------------
\* State
\* ------------------------------------------------------------------------

VARIABLES
    referenceConstellations,  \* the library array of src/data/constellations.ts
    userPoints,               \* the caller's query array of the last call
    threshold,                \* the threshold of the last findBestMatch call
    call,                     \* the function called last, "none" before any call
    result,                   \* what that call returned
    diaryEntries,             \* the table db.diaryEntries, in insertion order
    constellations,           \* the table db.constellations, in insertion order
    unassignedEntries,        \* App's state unassignedEntries
    view,                     \* App's state view
    tasks,                    \* the async handlers of App in flight
    hooks,                    \* the refs and effect of each useP5 call
    instances                 \* every p5 instance created so far

\* The state of the database and of App.
storeVars == <<diaryEntries, constellations, unassignedEntries, view, tasks>>

\* The state of the useP5 calls.
hookVars == <<hooks, instances>>

appVars == <<storeVars, hookVars>>

vars == <<referenceConstellations, userPoints, threshold, call, result,
          diaryEntries, constellations, unassignedEntries, view, tasks,
          hooks, instances>>

\* ------------------------------------------------------------------------
\* The app before it is started
\* ------------------------------------------------------------------------

\* The most handlers of App in flight at once.
MaxTasks == 2

TaskIds == 1..MaxTasks

\* JavaScript's undefined.
undefined == [isUndefined |-> TRUE]

\* A slot with no handler in flight.
idleTask ==
    [pc |-> "idle", kind |-> "none", entryIds |-> <<>>,
     matchedConstellationId |-> undefined, usedIds |-> {}, unassigned |-> <<>>]

\* The components that call useP5.
Components == {"ConstellationCanvas", "ConstellationCreator", "StarDetail"}

\* A component that is not mounted: no refs, no effect.
unmounted ==
    [phase |-> "unmounted", version |-> "none", containerRef |-> FALSE,
     p5InstanceRef |-> 0, isInitializedRef |-> FALSE, cleanup |-> FALSE]

\* Nothing stored, App not mounted, no component mounted.
AppAtRest ==
    /\ diaryEntries = <<>>
    /\ constellations = <<>>
    /\ unassignedEntries = <<>>
    /\ view = "home"
    /\ tasks = [t \in TaskIds |-> idleTask]
    /\ hooks = [c \in Components |-> unmounted]
    /\ instances = <<>>

\* ------------------------------------------------------------------------
\* Main API (src/lib/constellationMatcher.ts)
\* ------------------------------------------------------------------------

\* JavaScript's null.
null == [isNull |-> TRUE]

\* A MatchResult whose name is the shape's id and whose path is built from
\* the id: not the shape's own fields.
MatchResultFromId(refConstellation, similarity) ==
    [constellationId |-> refConstellation.id,
     constellationName |-> refConstellation.id,
     similarity |-> similarity,
     svgPath |-> "/assets/" \o refConstellation.id \o ".svg"]

MatchResult(refConstellation, similarity) ==
    [constellationId |-> refConstellation.id,
     constellationName |-> refConstellation.name,
     similarity |-> similarity,
     svgPath |-> refConstellation.svgPath]

\* The loop of findBestMatch with >= in place of >: the last of equal shapes
\* wins.
RECURSIVE ScanLibraryLast(_, _, _, _, _)
ScanLibraryLast(points, library, k, bestMatch, bestSimilarity) ==
    IF k > Len(library) THEN bestMatch
    ELSE Bind(library[k], LAMBDA refConstellation :
         Bind(calculateSimilarity(points, refConstellation), LAMBDA similarity :
              IF similarity >= bestSimilarity
              THEN ScanLibraryLast(points, library, k + 1,
                               MatchResult(refConstellation, similarity), similarity)
              ELSE ScanLibraryLast(points, library, k + 1, bestMatch, bestSimilarity)))

\* The for-of loop of findBestMatch over library[k..], carrying bestMatch and
\* bestSimilarity.
RECURSIVE ScanLibrary(_, _, _, _, _)
ScanLibrary(points, library, k, bestMatch, bestSimilarity) ==
    IF k > Len(library) THEN bestMatch
    ELSE Bind(library[k], LAMBDA refConstellation :
         Bind(calculateSimilarity(points, refConstellation), LAMBDA similarity :
              IF similarity > bestSimilarity
              THEN ScanLibrary(points, library, k + 1,
                               MatchResult(refConstellation, similarity), similarity)
              ELSE ScanLibrary(points, library, k + 1, bestMatch, bestSimilarity)))

\* findBestMatch whose bestSimilarity starts at 0, not at -1: a similarity of
\* 0 never replaces the initial null.
findBestMatchFromZero(points, t) ==
    IF Len(points) = 0 THEN null
    ELSE Bind(ScanLibrary(points, referenceConstellations, 1, null, 0),
              LAMBDA bestMatch :
                  IF bestMatch # null /\ bestMatch.similarity < t
                  THEN null
                  ELSE bestMatch)

\* findBestMatch that always applies the default threshold 0.3.
findBestMatchDefaultThreshold(points, t) ==
    IF Len(points) = 0 THEN null
    ELSE Bind(ScanLibrary(points, referenceConstellations, 1, null, 0 - SimOne),
              LAMBDA bestMatch :
                  IF bestMatch # null /\ 10 * bestMatch.similarity < 3 * SimOne
                  THEN null
                  ELSE bestMatch)

\* findBestMatch that rejects a similarity equal to the threshold.
findBestMatchAbove(points, t) ==
    IF Len(points) = 0 THEN null
    ELSE Bind(ScanLibrary(points, referenceConstellations, 1, null, 0 - SimOne),
              LAMBDA bestMatch :
                  IF bestMatch # null /\ bestMatch.similarity <= t
                  THEN null
                  ELSE bestMatch)

\* findBestMatch without the early return for an empty query.
findBestMatchUnguarded(points, t) ==
    Bind(ScanLibrary(points, referenceConstellations, 1, null, 0 - SimOne),
         LAMBDA bestMatch :
             IF bestMatch # null /\ bestMatch.similarity < t
             THEN null
             ELSE bestMatch)

\* bestSimilarity starts at -1, that is -SimOne.
findBestMatch(points, t) ==
    IF Len(points) = 0 THEN null
    ELSE Bind(ScanLibrary(points, referenceConstellations, 1, null, 0 - SimOne),
              LAMBDA bestMatch :
                  IF bestMatch # null /\ bestMatch.similarity < t
                  THEN null
                  ELSE bestMatch)

\* The sort with the comparator a.similarity - b.similarity: ascending.
RECURSIVE InsertSortedAscending(_, _, _)
InsertSortedAscending(sorted, e, i) ==
    IF i > Len(sorted) THEN Append(sorted, e)
    ELSE IF sorted[i].similarity - e.similarity > 0
         THEN SubSeq(sorted, 1, i - 1) \o <<e>> \o SubSeq(sorted, i, Len(sorted))
         ELSE InsertSortedAscending(sorted, e, i + 1)

\* A sort that puts e in front of the elements equal to it: not stable.
RECURSIVE InsertSortedUnstable(_, _, _)
InsertSortedUnstable(sorted, e, i) ==
    IF i > Len(sorted) THEN Append(sorted, e)
    ELSE IF e.similarity - sorted[i].similarity >= 0
         THEN SubSeq(sorted, 1, i - 1) \o <<e>> \o SubSeq(sorted, i, Len(sorted))
         ELSE InsertSortedUnstable(sorted, e, i + 1)

\* Array.prototype.sort with (a, b) => b.similarity - a.similarity: a stable
\* sort (ECMAScript 2019), here by insertion.  e goes after every element
\* the comparator does not put behind it.
RECURSIVE InsertSorted(_, _, _)
InsertSorted(sorted, e, i) ==
    IF i > Len(sorted) THEN Append(sorted, e)
    ELSE IF e.similarity - sorted[i].similarity > 0
         THEN SubSeq(sorted, 1, i - 1) \o <<e>> \o SubSeq(sorted, i, Len(sorted))
         ELSE InsertSorted(sorted, e, i + 1)

RECURSIVE SortBySimilarity(_, _)
SortBySimilarity(results, n) ==
    IF n = 0 THEN <<>>
    ELSE Bind(SortBySimilarity(results, n - 1), LAMBDA sorted :
              InsertSorted(sorted, results[n], 1))

\* calculateAllSimilarities that reports every similarity reduced by the
\* best similarity of the other shapes: a shape's score depends on the rest
\* of the library.
calculateAllSimilaritiesAgainstRest(points) ==
    IF Len(points) = 0 THEN <<>>
    ELSE Bind([k \in 1..Len(referenceConstellations) |->
                  calculateSimilarity(points, referenceConstellations[k])],
              LAMBDA sims :
         Bind([k \in 1..Len(referenceConstellations) |->
                  MatchResult(referenceConstellations[k],
                      IF \E j \in 1..Len(sims) : j # k /\ sims[j] > sims[k]
                      THEN sims[k] \div 2 ELSE sims[k])],
              LAMBDA mapped : SortBySimilarity(mapped, Len(mapped))))

calculateAllSimilarities(points) ==
    IF Len(points) = 0 THEN <<>>
    ELSE Bind([k \in 1..Len(referenceConstellations) |->
                  MatchResult(referenceConstellations[k],
                      calculateSimilarity(points, referenceConstellations[k]))],
              LAMBDA mapped : SortBySimilarity(mapped, Len(mapped)))

\* ------------------------------------------------------------------------
\* Inputs
\* ------------------------------------------------------------------------

\* The longest query array.
MaxPts == 3

\* The points a query is made of.
QueryPoints == {Pt(0, 0), Pt(1, 0), Pt(2, 0), Pt(0, 1), Pt(1, 2)}

RECURSIVE SeqsOf(_, _)
SeqsOf(S, n) ==
    IF n = 0 THEN {<<>>}
    ELSE LET shorter == SeqsOf(S, n - 1)
         IN  shorter \cup {Append(q, p) : q \in {r \in shorter : Len(r) = n - 1}, p \in S}

Queries == SeqsOf(QueryPoints, MaxPts)

\* Thresholds, in similarity units: -1, 0, the callers' 0.1, the default 0.3, 1.
Thresholds == {0 - SimOne, 0, SimOne \div 10, (3 * SimOne) \div 10, SimOne}

Shape(id, points) ==
    [id |-> id, name |-> id \o "-za", points |-> points,
     svgPath |-> "/constellations/" \o id \o ".svg"]

\* Libraries the matcher is run against: none, the one shape of the spec's
\* scenario, and libraries holding equal shapes at several positions.
segment == Shape("segment", <<Pt(0, 0), Pt(1, 0)>>)
triangle == Shape("triangle", <<Pt(0, 0), Pt(2, 0), Pt(1, 2)>>)
shifted == Shape("shifted", <<Pt(3, 3), Pt(5, 3)>>)
corner == Shape("corner", <<Pt(0, 1), Pt(0, 0), Pt(1, 0)>>)
dot == Shape("dot", <<Pt(1, 1)>>)

Libraries ==
    { <<>>,
      <<triangle>>,
      <<segment, triangle, shifted>>,
      <<dot, corner, segment>> }

\* ------------------------------------------------------------------------
\* Behaviour
\* ------------------------------------------------------------------------

Init ==
    /\ referenceConstellations \in Libraries
    /\ userPoints = <<>>
    /\ threshold = (3 * SimOne) \div 10
    /\ call = "none"
    /\ result = null
    /\ AppAtRest

\* A caller calls findBestMatch(points, t) and holds what it returns.
FindBestMatch(points, t) ==
    /\ call = "none"
    /\ userPoints' = points
    /\ threshold' = t
    /\ call' = "findBestMatch"
    /\ result' = findBestMatch(points, t)
    /\ UNCHANGED referenceConstellations
    /\ UNCHANGED appVars

\* calculateAllSimilarities that sorts referenceConstellations itself into the
\* order of the ranking, not only the mapped array.
CalculateAllSimilaritiesSortingLibrary(points) ==
    /\ call = "none"
    /\ userPoints' = points
    /\ call' = "calculateAllSimilarities"
    /\ result' = calculateAllSimilarities(points)
    /\ referenceConstellations' =
           Bind(calculateAllSimilarities(points), LAMBDA results :
                [i \in 1..Len(results) |->
                    CHOOSE c \in {referenceConstellations[k] :
                                     k \in 1..Len(referenceConstellations)} :
                        c.id = results[i].constellationId])
    /\ UNCHANGED threshold
    /\ UNCHANGED appVars

\* A caller calls calculateAllSimilarities(points) and holds what it returns.
CalculateAllSimilarities(points) ==
    /\ call = "none"
    /\ userPoints' = points
    /\ call' = "calculateAllSimilarities"
    /\ result' = calculateAllSimilarities(points)
    /\ UNCHANGED <<referenceConstellations, threshold>>
    /\ UNCHANGED appVars

\* The caller is done with the result and its query array; the library
\* lives on for the next call.
Return ==
    /\ call # "none"
    /\ userPoints' = <<>>
    /\ threshold' = (3 * SimOne) \div 10
    /\ call' = "none"
    /\ result' = null
    /\ UNCHANGED referenceConstellations
    /\ UNCHANGED appVars

Next ==
    \/ \E points \in Queries, t \in Thresholds : FindBestMatch(points, t)
    \/ \E points \in Queries : CalculateAllSimilarities(points)
    \/ Return

Spec == Init /\ [][Next]_vars

\* ------------------------------------------------------------------------
\* The shipped library
\* ------------------------------------------------------------------------

\* How far a shipped shape's point list is rotated to make a query.
MaxShift == 2

\* points with its first r elements moved to the end.
Rotate(points, r) ==
    [i \in 1..Len(points) |-> points[((i - 1 + r) % Len(points)) + 1]]

\* Queries against the shipped library: the shapes' own point lists, as
\* authored and rotated.
ShippedQueries ==
    {Rotate(ShippedConstellations[k].points, r) :
        k \in 1..Len(ShippedConstellations), r \in 0..MaxShift}

InitShipped ==
    /\ referenceConstellations = ShippedConstellations
    /\ userPoints = <<>>
    /\ threshold = (3 * SimOne) \div 10
    /\ call = "none"
    /\ result = null
    /\ AppAtRest

NextShipped ==
    \/ \E points \in ShippedQueries, t \in Thresholds : FindBestMatch(points, t)
    \/ \E points \in ShippedQueries : CalculateAllSimilarities(points)
    \/ Return

SpecShipped == InitShipped /\ [][NextShipped]_vars

\* ------------------------------------------------------------------------
\* Libraries and queries of many points
\* ------------------------------------------------------------------------

\* The most points a shape or a query of this library has.
MaxCount == 12

\* n points on a line around (0, 0): the centre first, then pairs at equal
\* distances on both sides, and the centre again when n is even.  The
\* centroid is the centre, which is a point of the set.
StarPoints(n) ==
    [i \in 1..n |->
        IF i = 1 \/ (i = n /\ n % 2 = 0) THEN Pt(0, 0)
        ELSE IF i % 2 = 0 THEN Pt(i \div 2, 0)
        ELSE Pt(0 - (i \div 2), 0)]

CountShape(n) == Shape("star" \o ToString(n), StarPoints(n))

\* Libraries of two shapes whose point counts differ by one, up to MaxCount
\* points.
CountLibraries ==
    {<<CountShape(n), CountShape(n + 1)>> : n \in 1..(MaxCount - 1)}

\* Queries of every point count up to MaxCount, and short queries of other
\* geometry.
CountQueries ==
    {StarPoints(n) : n \in 1..MaxCount} \cup SeqsOf({Pt(1, 0), Pt(0, 1)}, 2)

InitCounts ==
    /\ referenceConstellations \in CountLibraries
    /\ userPoints = <<>>
    /\ threshold = (3 * SimOne) \div 10
    /\ call = "none"
    /\ result = null
    /\ AppAtRest

NextCounts ==
    \/ \E points \in CountQueries, t \in Thresholds : FindBestMatch(points, t)
    \/ \E points \in CountQueries : CalculateAllSimilarities(points)
    \/ Return

SpecCounts == InitCounts /\ [][NextCounts]_vars

\* ------------------------------------------------------------------------
\* Point sets whose points coincide
\* ------------------------------------------------------------------------

\* The most copies of one point a query is made of.
MaxCopies == 4

\* Star positions in the unit square, in tenths and hundredths.
CoincidentPositions ==
    { Pt(0, 0),
      [x |-> Rat(1, 2), y |-> Rat(1, 2)],
      [x |-> Rat(1, 10), y |-> Rat(1, 10)],
      [x |-> Rat(3, 10), y |-> Rat(7, 10)],
      [x |-> Rat(55, 100), y |-> Rat(8, 100)] }

\* n stars at the position p.
Copies(p, n) == [i \in 1..n |-> p]

CoincidentQueries ==
    {Copies(p, n) : p \in CoincidentPositions, n \in 1..MaxCopies}

\* A library of a shape with distinct points and one whose points coincide.
CoincidentLibraries ==
    { <<triangle>>,
      <<triangle, Shape("dot3", Copies([x |-> Rat(1, 10), y |-> Rat(1, 10)], 3))>> }

InitCoincident ==
    /\ referenceConstellations \in CoincidentLibraries
    /\ userPoints = <<>>
    /\ threshold = (3 * SimOne) \div 10
    /\ call = "none"
    /\ result = null
    /\ AppAtRest

NextCoincident ==
    \/ \E points \in CoincidentQueries, t \in Thresholds : FindBestMatch(points, t)
    \/ \E points \in CoincidentQueries : CalculateAllSimilarities(points)
    \/ Return

SpecCoincident == InitCoincident /\ [][NextCoincident]_vars

\* ------------------------------------------------------------------------
\* Lookups (src/data/constellations.ts) and the caller's array
\* ------------------------------------------------------------------------

\* library.find(c => c.id === id), from index i on.
RECURSIVE FindById(_, _, _)
FindById(library, id, i) ==
    IF i > Len(library) THEN undefined
    ELSE IF library[i].id = id THEN library[i]
    ELSE FindById(library, id, i + 1)

\* library.find(c => c.name === name), from index i on.
RECURSIVE FindByName(_, _, _)
FindByName(library, name, i) ==
    IF i > Len(library) THEN undefined
    ELSE IF library[i].name = name THEN library[i]
    ELSE FindByName(library, name, i + 1)

\* getConstellationById that compares the name with the id it is given.
getConstellationByIdComparingName(id) == FindByName(referenceConstellations, id, 1)

getConstellationById(id) == FindById(referenceConstellations, id, 1)

getConstellationByName(name) == FindByName(referenceConstellations, name, 1)

\* Ids and names that are looked up: those of the shipped and of the small
\* shapes, and some that no shape carries.
LookupIds ==
    {ShippedConstellations[k].id : k \in 1..Len(ShippedConstellations)}
        \cup {"segment", "triangle", "shifted", "orion", "kurage-za", ""}

LookupNames ==
    {ShippedConstellations[k].name : k \in 1..Len(ShippedConstellations)}
        \cup {"segment-za", "triangle-za", "shifted-za", "orion-za", "kurage", ""}

\* The arrays a caller makes of its stars' positions.
LookupQueries ==
    SeqsOf({Pt(0, 0), Pt(1, 0), Pt(1, 2)}, 2)
        \cup {triangle.points, kurageConstellation.points}

\* A shape without points: no query point finds a reference point.
blank == Shape("blank", <<>>)

LookupLibraries ==
    {ShippedConstellations, <<segment, triangle, shifted>>, <<blank, triangle>>, <<>>}

InitLookup ==
    /\ referenceConstellations \in LookupLibraries
    /\ userPoints = <<>>
    /\ threshold = (3 * SimOne) \div 10
    /\ call = "none"
    /\ result = null
    /\ AppAtRest

\* The caller makes the array of its stars' positions; the matcher is then
\* called with this array.
Draw(points) ==
    /\ call = "none"
    /\ userPoints' = points
    /\ UNCHANGED <<referenceConstellations, threshold, call, result>>
    /\ UNCHANGED appVars

\* A caller calls getConstellationById(id) and holds what it returns.
GetConstellationById(id) ==
    /\ call = "none"
    /\ call' = "getConstellationById"
    /\ result' = getConstellationById(id)
    /\ UNCHANGED <<referenceConstellations, userPoints, threshold>>
    /\ UNCHANGED appVars

\* A caller calls getConstellationByName(name) and holds what it returns.
GetConstellationByName(name) ==
    /\ call = "none"
    /\ call' = "getConstellationByName"
    /\ result' = getConstellationByName(name)
    /\ UNCHANGED <<referenceConstellations, userPoints, threshold>>
    /\ UNCHANGED appVars

NextLookup ==
    \/ \E points \in LookupQueries : Draw(points)
    \/ \E t \in Thresholds : FindBestMatch(userPoints, t)
    \/ CalculateAllSimilarities(userPoints)
    \/ \E id \in LookupIds : GetConstellationById(id)
    \/ \E name \in LookupNames : GetConstellationByName(name)
    \/ Return

SpecLookup == InitLookup /\ [][NextLookup]_vars

\* ------------------------------------------------------------------------
\* The triangle scenario
\* ------------------------------------------------------------------------

\* The shape {id: "triangle", points: [(0,0), (1,0), (0.5,1)]}.
scenarioTriangle ==
    Shape("triangle", <<Pt(0, 0), Pt(1, 0), [x |-> Rat(1, 2), y |-> Rat(1, 1)]>>)

\* The scenario's queries: the exact match, the translated one and the
\* reflected one.
exactQuery == <<Pt(0, 0), Pt(1, 0), [x |-> Rat(1, 2), y |-> Rat(1, 1)]>>
translatedQuery == <<Pt(10, 10), Pt(11, 10), [x |-> Rat(21, 2), y |-> Rat(11, 1)]>>
reflectedQuery == <<Pt(0, 0), Pt(0, 1), Pt(1, 0)>>

\* Queries against the scenario's library: the scenario's own, and each of
\* them moved by 1 to MaxMove steps of (1/2, 1/4).
MaxMove == 6

ScenarioQueries ==
    {exactQuery, translatedQuery, reflectedQuery}
        \cup {[i \in 1..3 |-> [x |-> RAdd(q[i].x, Rat(n, 2)), y |-> RAdd(q[i].y, Rat(n, 4))]] :
                 q \in {exactQuery, translatedQuery, reflectedQuery}, n \in 1..MaxMove}

InitScenario ==
    /\ referenceConstellations = <<scenarioTriangle>>
    /\ userPoints = <<>>
    /\ threshold = (3 * SimOne) \div 10
    /\ call = "none"
    /\ result = null
    /\ AppAtRest

NextScenario ==
    \/ \E points \in ScenarioQueries, t \in Thresholds : FindBestMatch(points, t)
    \/ \E points \in ScenarioQueries : CalculateAllSimilarities(points)
    \/ Return

SpecScenario == InitScenario /\ [][NextScenario]_vars

\* ------------------------------------------------------------------------
\* The diary store (src/lib/db.ts) and App's handlers (src/App.tsx)
\* ------------------------------------------------------------------------

\* getUnassignedEntries' default limit; App offers the creator from this
\* many unassigned entries on and makes a constellation of this many.
Limit == 7

\* The most diary entries and constellations stored.
MaxEntries == 8
MaxConstellations == 2

\* Where the user puts the star of an entry: the placements of the first
\* constellation of createTestData, in turn.
positions1 ==
    <<[x |-> Rat(2, 10), y |-> Rat(3, 10)],
      [x |-> Rat(4, 10), y |-> Rat(15, 100)],
      [x |-> Rat(6, 10), y |-> Rat(25, 100)],
      [x |-> Rat(8, 10), y |-> Rat(2, 10)],
      [x |-> Rat(3, 10), y |-> Rat(6, 10)],
      [x |-> Rat(5, 10), y |-> Rat(7, 10)],
      [x |-> Rat(7, 10), y |-> Rat(55, 100)]>>

\* The day an entry is written on: the model writes two entries a day.
Today == (Len(diaryEntries) \div 2) + 1

\* table.add(record): the auto-incremented key is one more than the keys
\* given so far; nothing is deleted here, so that is the length plus one.
addDiaryEntry(date, starPosition) ==
    Append(diaryEntries,
           [id |-> Len(diaryEntries) + 1, date |-> date,
            starPosition |-> starPosition])

createConstellation(entryIds, matchedConstellationId) ==
    Append(constellations,
           [id |-> Len(constellations) + 1, entryIds |-> entryIds,
            matchedConstellationId |-> matchedConstellationId])

\* db.diaryEntries.orderBy('date').toArray(): by date, equal dates by key.
RECURSIVE OrderByDate(_)
OrderByDate(table) ==
    IF Len(table) = 0 THEN <<>>
    ELSE LET first == CHOOSE e \in {table[i] : i \in 1..Len(table)} :
                          \A i \in 1..Len(table) :
                              \/ e.date < table[i].date
                              \/ e.date = table[i].date /\ e.id <= table[i].id
         IN  <<first>> \o OrderByDate(SelectSeq(table, LAMBDA e : e.id # first.id))

\* new Set(constellations.flatMap((c) => c.entryIds))
UsedIds(table) ==
    UNION {{table[i].entryIds[j] : j \in 1..Len(table[i].entryIds)} :
              i \in 1..Len(table)}

\* The second half of getUnassignedEntries: the entries by date, those with
\* an id outside usedIds, the first limit of them.
sliceTo(array, limit) ==
    SubSeq(array, 1, IF Len(array) < limit THEN Len(array) ELSE limit)

unassignedOf(usedIds, limit) ==
    sliceTo(SelectSeq(OrderByDate(diaryEntries),
                      LAMBDA entry : entry.id # 0 /\ entry.id \notin usedIds),
            limit)

\* The slot the next handler runs in.
FreeSlots == {t \in TaskIds : tasks[t].pc = "idle"}
FreeSlot == CHOOSE t \in FreeSlots : \A u \in FreeSlots : t <= u

\* The handlers in flight that have still to write a row.
Writing(pc) == Cardinality({t \in TaskIds : tasks[t].pc = pc})

\* App is constructed and mounted: nothing is stored, the view is home and
\* the mount effect has called loadData.
InitApp ==
    /\ referenceConstellations = ShippedConstellations
    /\ userPoints = <<>>
    /\ threshold = (3 * SimOne) \div 10
    /\ call = "none"
    /\ result = null
    /\ diaryEntries = <<>>
    /\ constellations = <<>>
    /\ unassignedEntries = <<>>
    /\ view = "home"
    /\ tasks = [t \in TaskIds |->
                  IF t = 1
                  THEN [idleTask EXCEPT !.pc = "readConstellations", !.kind = "mount"]
                  ELSE idleTask]
    /\ hooks = [c \in Components |-> unmounted]
    /\ instances = <<>>

\* The buttons of the home view.
SetViewEntry ==
    /\ view = "home"
    /\ view' = "entry"
    /\ UNCHANGED <<diaryEntries, constellations, unassignedEntries, tasks>>
    /\ UNCHANGED <<referenceConstellations, userPoints, threshold, call, result, hookVars>>

SetViewConstellation ==
    /\ view = "home"
    /\ Len(unassignedEntries) >= Limit
    /\ view' = "constellation"
    /\ UNCHANGED <<diaryEntries, constellations, unassignedEntries, tasks>>
    /\ UNCHANGED <<referenceConstellations, userPoints, threshold, call, result, hookVars>>

\* onCancel of the entry view and of the creator.
Cancel ==
    /\ view \in {"entry", "constellation"}
    /\ view' = "home"
    /\ UNCHANGED <<diaryEntries, constellations, unassignedEntries, tasks>>
    /\ UNCHANGED <<referenceConstellations, userPoints, threshold, call, result, hookVars>>

\* handleDiaryEntryComplete up to its call of addDiaryEntry.
HandleDiaryEntryComplete ==
    /\ view = "entry"
    /\ FreeSlots # {}
    /\ Len(diaryEntries) + Writing("addDiaryEntry") < MaxEntries
    /\ tasks' = [tasks EXCEPT ![FreeSlot] =
                    [idleTask EXCEPT !.pc = "addDiaryEntry", !.kind = "entry"]]
    /\ UNCHANGED <<diaryEntries, constellations, unassignedEntries, view>>
    /\ UNCHANGED <<referenceConstellations, userPoints, threshold, call, result, hookVars>>

\* The row is added; the handler goes on to loadData.
AddDiaryEntry(t) ==
    /\ tasks[t].pc = "addDiaryEntry"
    /\ diaryEntries' =
           addDiaryEntry(Today, positions1[(Len(diaryEntries) % Len(positions1)) + 1])
    /\ tasks' = [tasks EXCEPT ![t].pc = "readConstellations"]
    /\ UNCHANGED <<constellations, unassignedEntries, view>>
    /\ UNCHANGED <<referenceConstellations, userPoints, threshold, call, result, hookVars>>

\* handleConstellationComplete, fired by the creator's button, up to its
\* call of createConstellation: the entries are those of the render the
\* creator was drawn in.
HandleConstellationComplete ==
    /\ view = "constellation"
    /\ FreeSlots # {}
    /\ Len(constellations) + Writing("createConstellation") < MaxConstellations
    /\ LET entriesToUse == sliceTo(unassignedEntries, Limit)
           points == [i \in 1..Len(entriesToUse) |-> entriesToUse[i].starPosition]
           matched == findBestMatch(points, SimOne \div 10)
       IN  tasks' = [tasks EXCEPT ![FreeSlot] =
                       [idleTask EXCEPT
                           !.pc = "createConstellation",
                           !.kind = "constellation",
                           !.entryIds = [i \in 1..Len(entriesToUse) |-> entriesToUse[i].id],
                           !.matchedConstellationId =
                               IF matched = null THEN undefined
                               ELSE matched.constellationId]]
    /\ UNCHANGED <<diaryEntries, constellations, unassignedEntries, view>>
    /\ UNCHANGED <<referenceConstellations, userPoints, threshold, call, result, hookVars>>

\* The row is added; the handler goes on to loadData.
CreateConstellation(t) ==
    /\ tasks[t].pc = "createConstellation"
    /\ constellations' =
           createConstellation(tasks[t].entryIds, tasks[t].matchedConstellationId)
    /\ tasks' = [tasks EXCEPT ![t].pc = "readConstellations"]
    /\ UNCHANGED <<diaryEntries, unassignedEntries, view>>
    /\ UNCHANGED <<referenceConstellations, userPoints, threshold, call, result, hookVars>>

\* getUnassignedEntries, first await: the constellations are read.
ReadConstellations(t) ==
    /\ tasks[t].pc = "readConstellations"
    /\ tasks' = [tasks EXCEPT ![t].pc = "readEntries",
                              ![t].usedIds = UsedIds(constellations)]
    /\ UNCHANGED <<diaryEntries, constellations, unassignedEntries, view>>
    /\ UNCHANGED <<referenceConstellations, userPoints, threshold, call, result, hookVars>>

\* getUnassignedEntries, second await: the entries are read, filtered and
\* sliced, and returned to loadData.
ReadEntries(t) ==
    /\ tasks[t].pc = "readEntries"
    /\ tasks' = [tasks EXCEPT ![t].pc = "loaded",
                              ![t].unassigned = unassignedOf(tasks[t].usedIds, Limit)]
    /\ UNCHANGED <<diaryEntries, constellations, unassignedEntries, view>>
    /\ UNCHANGED <<referenceConstellations, userPoints, threshold, call, result, hookVars>>

\* loadData sets App's state; a handler then sets the view to home.
Loaded(t) ==
    /\ tasks[t].pc = "loaded"
    /\ unassignedEntries' = tasks[t].unassigned
    /\ view' = IF tasks[t].kind = "mount" THEN view ELSE "home"
    /\ tasks' = [tasks EXCEPT ![t] = idleTask]
    /\ UNCHANGED <<diaryEntries, constellations>>
    /\ UNCHANGED <<referenceConstellations, userPoints, threshold, call, result, hookVars>>

NextApp ==
    \/ SetViewEntry
    \/ SetViewConstellation
    \/ Cancel
    \/ HandleDiaryEntryComplete
    \/ \E t \in TaskIds : AddDiaryEntry(t)
    \/ HandleConstellationComplete
    \/ \E t \in TaskIds : CreateConstellation(t)
    \/ \E t \in TaskIds : ReadConstellations(t)
    \/ \E t \in TaskIds : ReadEntries(t)
    \/ \E t \in TaskIds : Loaded(t)

SpecApp == InitApp /\ [][NextApp]_vars

\* ------------------------------------------------------------------------
\* useP5 (src/hooks/useP5.ts) under React's effect lifecycle
\* ------------------------------------------------------------------------

\* The most p5 instances created in a behaviour.
MaxInstances == 4

\* The two texts of the hook: the one with isInitializedRef and an empty
\* dependency array, and the one whose effect depends on the sketch.
Versions == {"initialized", "deps"}

\* p5InstanceRef.current.remove()
remove(insts, id) == [insts EXCEPT ![id].removed = TRUE]

\* new p5(sketch, container), made by the hook call of component c.
newP5(insts, c) == Append(insts, [hook |-> c, removed |-> FALSE])

\* The effect of the hook with isInitializedRef, run for the hook call h of
\* component c: the refs after it and the instances after it.
effectInitialized(h, c, insts) ==
    IF ~h.containerRef
    THEN [hook |-> [h EXCEPT !.cleanup = FALSE], instances |-> insts]
    ELSE IF h.isInitializedRef /\ h.p5InstanceRef # 0
    THEN [hook |-> [h EXCEPT !.cleanup = FALSE], instances |-> insts]
    ELSE Bind(IF h.p5InstanceRef # 0 THEN remove(insts, h.p5InstanceRef) ELSE insts,
              LAMBDA cleared :
         Bind(newP5(cleared, c), LAMBDA created :
              [hook |-> [h EXCEPT !.p5InstanceRef = Len(created),
                                  !.isInitializedRef = TRUE,
                                  !.cleanup = TRUE],
               instances |-> created]))

\* A cleanup that drops the reference without calling remove().
cleanupForgetting(h, insts) ==
    [hook |-> [h EXCEPT !.p5InstanceRef = 0, !.isInitializedRef = FALSE,
                        !.cleanup = FALSE],
     instances |-> insts]

\* The cleanup that effect returns.
cleanupInitialized(h, insts) ==
    [hook |-> [h EXCEPT !.p5InstanceRef = 0, !.isInitializedRef = FALSE,
                        !.cleanup = FALSE],
     instances |-> IF h.p5InstanceRef # 0 THEN remove(insts, h.p5InstanceRef)
                   ELSE insts]

\* The effect of the hook that depends on [sketch, containerRef].
effectDeps(h, c, insts) ==
    IF ~h.containerRef
    THEN [hook |-> [h EXCEPT !.cleanup = FALSE], instances |-> insts]
    ELSE Bind(newP5(insts, c), LAMBDA created :
              [hook |-> [h EXCEPT !.p5InstanceRef = Len(created), !.cleanup = TRUE],
               instances |-> created])

\* The cleanup that effect returns.
cleanupDeps(h, insts) ==
    [hook |-> [h EXCEPT !.p5InstanceRef = 0, !.cleanup = FALSE],
     instances |-> IF h.p5InstanceRef # 0 THEN remove(insts, h.p5InstanceRef)
                   ELSE insts]

\* React runs the effect of a hook call.
runEffect(h, c, insts) ==
    IF h.version = "initialized" THEN effectInitialized(h, c, insts)
    ELSE effectDeps(h, c, insts)

\* React runs the cleanup the last effect returned, if it returned one.
runCleanup(h, insts) ==
    IF ~h.cleanup THEN [hook |-> h, instances |-> insts]
    ELSE IF h.version = "initialized" THEN cleanupInitialized(h, insts)
    ELSE cleanupDeps(h, insts)

InitHooks ==
    /\ referenceConstellations = ShippedConstellations
    /\ userPoints = <<>>
    /\ threshold = (3 * SimOne) \div 10
    /\ call = "none"
    /\ result = null
    /\ AppAtRest

\* Component c is mounted: the hook call gets its refs, the container div is
\* attached (or not rendered), and the effect runs.
Mount(c, version, attached) ==
    /\ hooks[c].phase = "unmounted"
    /\ Len(instances) < MaxInstances
    /\ LET after == runEffect([unmounted EXCEPT !.phase = "effect",
                                                !.version = version,
                                                !.containerRef = attached],
                              c, instances)
       IN  /\ hooks' = [hooks EXCEPT ![c] = after.hook]
           /\ instances' = after.instances
    /\ UNCHANGED <<referenceConstellations, userPoints, threshold, call, result, storeVars>>

\* React runs the cleanup with the component kept: the first half of Strict
\* Mode's double mount.
EffectCleanup(c) ==
    /\ hooks[c].phase = "effect"
    /\ LET after == runCleanup(hooks[c], instances)
       IN  /\ hooks' = [hooks EXCEPT ![c] = [after.hook EXCEPT !.phase = "cleaned"]]
           /\ instances' = after.instances
    /\ UNCHANGED <<referenceConstellations, userPoints, threshold, call, result, storeVars>>

\* React runs the effect again with the same refs: the second half.
EffectRemount(c) ==
    /\ hooks[c].phase = "cleaned"
    /\ Len(instances) < MaxInstances
    /\ LET after == runEffect([hooks[c] EXCEPT !.phase = "effect"], c, instances)
       IN  /\ hooks' = [hooks EXCEPT ![c] = after.hook]
           /\ instances' = after.instances
    /\ UNCHANGED <<referenceConstellations, userPoints, threshold, call, result, storeVars>>

\* A render with a new sketch: the effect that depends on the sketch is
\* cleaned up and run again in the same commit.
SketchChanged(c) ==
    /\ hooks[c].phase = "effect"
    /\ hooks[c].version = "deps"
    /\ Len(instances) < MaxInstances
    /\ LET cleaned == runCleanup(hooks[c], instances)
           after == runEffect(cleaned.hook, c, cleaned.instances)
       IN  /\ hooks' = [hooks EXCEPT ![c] = after.hook]
           /\ instances' = after.instances
    /\ UNCHANGED <<referenceConstellations, userPoints, threshold, call, result, storeVars>>

\* Component c is unmounted: the cleanup runs and the hook call ends.
Unmount(c) ==
    /\ hooks[c].phase = "effect"
    /\ LET after == runCleanup(hooks[c], instances)
       IN  /\ hooks' = [hooks EXCEPT ![c] = unmounted]
           /\ instances' = after.instances
    /\ UNCHANGED <<referenceConstellations, userPoints, threshold, call, result, storeVars>>

NextHooks ==
    \/ \E c \in Components, version \in Versions, attached \in BOOLEAN :
          Mount(c, version, attached)
    \/ \E c \in Components : EffectCleanup(c)
    \/ \E c \in Components : EffectRemount(c)
    \/ \E c \in Components : SketchChanged(c)
    \/ \E c \in Components : Unmount(c)

SpecHooks == InitHooks /\ [][NextHooks]_vars

\* ------------------------------------------------------------------------
\* Properties
\* ------------------------------------------------------------------------

\* The similarity of every library shape to points, in library order.
Similarities(points) ==
    [k \in 1..Len(referenceConstellations) |->
        calculateSimilarity(points, referenceConstellations[k])]

\* The largest element of a non-empty sequence of integers.
Largest(sims) ==
    CHOOSE m \in {sims[k] : k \in 1..Len(sims)} : \A k \in 1..Len(sims) : sims[k] <= m

\* The library positions of the shapes whose id is in a MatchResult.
PositionsOf(matchResult) ==
    {k \in 1..Len(referenceConstellations) :
        referenceConstellations[k].id = matchResult.constellationId}

\* The MatchResults a call has returned: none, one, or the ranked list.
Returned ==
    IF call = "findBestMatch" THEN (IF result = null THEN {} ELSE {result})
    ELSE IF call = "calculateAllSimilarities" THEN {result[i] : i \in 1..Len(result)}
    ELSE {}

\* C1: the similarity calculateSimilarity computes for a query and a library
\* shape (the empty query included), and the similarity field of every
\* MatchResult findBestMatch or calculateAllSimilarities returns, lies in
\* [0, 1].
C1_SimilarityInRange ==
    /\ \A m \in Returned : 0 <= m.similarity /\ m.similarity <= SimOne
    /\ call = "calculateAllSimilarities" =>
          \A k \in 1..Len(referenceConstellations) :
              LET sim == calculateSimilarity(userPoints, referenceConstellations[k])
              IN  0 <= sim /\ sim <= SimOne

\* C1 witness: a ranking that holds a similarity strictly inside (0, 1), a
\* similarity of 1 and a query longer than a shape (a penalty below 1).
C1_Witness ==
    /\ call = "calculateAllSimilarities"
    /\ \E i, j \in 1..Len(result) :
          /\ result[i].similarity = SimOne
          /\ 0 < result[j].similarity /\ result[j].similarity < SimOne
          /\ \E k \in PositionsOf(result[j]) :
                Len(referenceConstellations[k].points) < Len(userPoints)

\* C2: for a non-empty query and a non-empty library, findBestMatch returns
\* null when the largest similarity is below the threshold, and otherwise the
\* MatchResult of a shape that attains it (equality with the threshold is
\* accepted).
C2_ThresholdGating ==
    (call = "findBestMatch" /\ Len(userPoints) > 0
        /\ Len(referenceConstellations) > 0) =>
        LET sims == Similarities(userPoints)
            best == Largest(sims)
        IN  /\ best < threshold => result = null
            /\ best >= threshold =>
                  /\ result # null
                  /\ result.similarity = best
                  /\ \E k \in PositionsOf(result) :
                        /\ sims[k] = best
                        /\ result = MatchResult(referenceConstellations[k], best)

\* C2 witness: a match whose similarity equals the threshold exactly, in a
\* library where another shape scores less.
C2_Witness ==
    /\ call = "findBestMatch"
    /\ result # null
    /\ result.similarity = threshold
    /\ \E k \in 1..Len(referenceConstellations) :
          Similarities(userPoints)[k] < threshold

\* C2, the rejecting branch: a non-empty query whose best similarity is
\* positive and below the threshold, answered with null.
C2_RejectedWitness ==
    /\ call = "findBestMatch"
    /\ Len(userPoints) > 0
    /\ Len(referenceConstellations) > 0
    /\ result = null
    /\ Largest(Similarities(userPoints)) > 0

\* C3: when several shapes attain the largest similarity, findBestMatch
\* returns the one that comes first in the library.
C3_FirstOfTies ==
    (call = "findBestMatch" /\ result # null) =>
        \A k \in 1..Len(referenceConstellations) :
            Similarities(userPoints)[k] = result.similarity =>
                \A r \in PositionsOf(result) : r <= k

\* C3 witness: a match returned while a later shape has the same similarity
\* and a shape between them has a lower one.
C3_Witness ==
    /\ call = "findBestMatch"
    /\ result # null
    /\ \E r \in PositionsOf(result), k \in 1..Len(referenceConstellations) :
          /\ r < k
          /\ Similarities(userPoints)[k] = result.similarity
          /\ \E b \in (r + 1)..(k - 1) :
                Similarities(userPoints)[b] < result.similarity

\* C4: findBestMatch returns null for an empty query and for an empty
\* library, whatever the threshold; calculateAllSimilarities returns the
\* empty sequence for an empty query.
C4_EmptyInputs ==
    /\ (call = "findBestMatch"
          /\ (Len(userPoints) = 0 \/ Len(referenceConstellations) = 0)) =>
          result = null
    /\ (call = "calculateAllSimilarities" /\ Len(userPoints) = 0) =>
          result = <<>>

\* C4 witness: the empty query against a library with shapes, under a
\* threshold below zero.
C4_Witness ==
    /\ call = "findBestMatch"
    /\ Len(userPoints) = 0
    /\ Len(referenceConstellations) > 0
    /\ threshold < 0
    /\ result = null

\* C4 witness: a query against the empty library, under a threshold below
\* zero.
C4_EmptyLibraryWitness ==
    /\ call = "findBestMatch"
    /\ Len(userPoints) > 0
    /\ Len(referenceConstellations) = 0
    /\ threshold < 0
    /\ result = null

\* C5: for a non-empty query calculateAllSimilarities returns one
\* MatchResult per library shape, each with that shape's similarity, ordered
\* by non-increasing similarity.
C5_RankingComplete ==
    (call = "calculateAllSimilarities" /\ Len(userPoints) > 0) =>
        /\ Len(result) = Len(referenceConstellations)
        /\ \A k \in 1..Len(referenceConstellations) :
              Cardinality({i \in 1..Len(result) :
                  result[i] = MatchResult(referenceConstellations[k],
                                          Similarities(userPoints)[k])}) = 1
        /\ \A i \in 1..(Len(result) - 1) :
              result[i].similarity >= result[i + 1].similarity

\* C5 witness: a ranking of three shapes that is not in library order.
C5_Witness ==
    /\ call = "calculateAllSimilarities"
    /\ Len(result) = 3
    /\ result[1].constellationId = referenceConstellations[3].id
    /\ result[1].similarity > result[2].similarity
    /\ result[2].similarity > result[3].similarity

\* C6: shapes of equal similarity keep their library order in the ranking.
C6_RankingStable ==
    call = "calculateAllSimilarities" =>
        \A i, j \in 1..Len(result) :
            (i < j /\ result[i].similarity = result[j].similarity) =>
                \A a \in PositionsOf(result[i]), b \in PositionsOf(result[j]) : a < b

\* C6 witness: a ranking in which two shapes tie below the first place.
C6_Witness ==
    /\ call = "calculateAllSimilarities"
    /\ Len(result) = 3
    /\ result[1].similarity > result[2].similarity
    /\ result[2].similarity = result[3].similarity
    /\ result[2].similarity > 0

\* points moved by the offset d.
Translate(points, d) ==
    [i \in 1..Len(points) |->
        [x |-> RAdd(points[i].x, d.x), y |-> RAdd(points[i].y, d.y)]]

\* points scaled about the origin by the factor k.
Scale(points, k) ==
    [i \in 1..Len(points) |->
        [x |-> RMul(points[i].x, k), y |-> RMul(points[i].y, k)]]

\* Offsets of a translation: along an axis, fractional and oblique, far, and
\* by a tenth both ways.
Offsets ==
    { [x |-> Rat(1, 1), y |-> Rat(0, 1)],
      [x |-> Rat(1, 2), y |-> Rat(0 - 7, 3)],
      [x |-> Rat(100, 1), y |-> Rat(250, 1)],
      [x |-> Rat(1, 10), y |-> Rat(1, 10)] }

\* Positive scale factors: enlarging, shrinking, fractional.
Scales == { Rat(3, 1), Rat(1, 2), Rat(5, 3), Rat(7, 10) }

\* C7: translating the query by a constant offset leaves its similarity to
\* every library shape unchanged: the translated query is ranked with the
\* same similarities as the query.
C7_TranslationInvariant ==
    (call = "calculateAllSimilarities" /\ Len(userPoints) > 0) =>
        \A d \in Offsets :
            calculateAllSimilarities(Translate(userPoints, d)) = result

\* C7 witness: a ranked query of three points not on one line, whose
\* similarities are not all equal and one of which is inside (0, 1).
C7_Witness ==
    /\ call = "calculateAllSimilarities"
    /\ Len(userPoints) = 3
    /\ userPoints[1].y # userPoints[3].y
    /\ Len(result) = 3
    /\ result[1].similarity > result[3].similarity
    /\ result[3].similarity > 0
    /\ Translate(userPoints, [x |-> Rat(1, 2), y |-> Rat(0 - 7, 3)]) # userPoints

\* C8: scaling the query by a positive factor leaves its similarity to every
\* library shape unchanged: the scaled query is ranked with the same
\* similarities as the query.
C8_ScaleInvariant ==
    (call = "calculateAllSimilarities" /\ Len(userPoints) > 0) =>
        \A k \in Scales :
            calculateAllSimilarities(Scale(userPoints, k)) = result

\* C8 witness: a ranked query of three points whose scale is irrational
\* (the points are not on one axis-parallel line) and whose similarities
\* differ, one of them inside (0, 1).
C8_Witness ==
    /\ call = "calculateAllSimilarities"
    /\ Len(userPoints) = 3
    /\ userPoints[1].x # userPoints[2].x
    /\ userPoints[1].y # userPoints[2].y
    /\ Scale(userPoints, Rat(5, 3)) # userPoints
    /\ Len(result) = 3
    /\ result[1].similarity > result[2].similarity
    /\ result[2].similarity > 0

\* C9: every shipped shape matches its own points, in their authored order,
\* with similarity 1: the greedy correspondence pairs each point with
\* itself and the MSE is 0.
C9_SelfMatch ==
    \A k \in 1..Len(referenceConstellations) :
        (call # "none" /\ userPoints = referenceConstellations[k].points) =>
            LET normalizedUser == normalizePoints(userPoints)
                normalizedRef == normalizePoints(referenceConstellations[k].points)
                correspondence == findBestCorrespondence(normalizedUser, normalizedRef)
            IN  /\ correspondence = [i \in 1..Len(userPoints) |-> i]
                /\ calculateMSE(normalizedUser, normalizedRef, correspondence) = 0
                /\ calculateSimilarity(userPoints, referenceConstellations[k]) = SimOne
                /\ \A m \in Returned :
                      m.constellationId = referenceConstellations[k].id =>
                          m.similarity = SimOne

\* C9 witness: the last shipped shape's own points, ranked: the shape comes
\* first with similarity 1 and every other shape scores less.
C9_Witness ==
    /\ call = "calculateAllSimilarities"
    /\ referenceConstellations = ShippedConstellations
    /\ userPoints = gyozaConstellation.points
    /\ result[1].constellationId = "gyoza"
    /\ result[1].similarity = SimOne
    /\ result[2].similarity < SimOne

\* The points of a shape in the order perm gives.
Permute(points, perm) == [i \in 1..Len(points) |-> points[perm[i]]]

\* The similarity of points to the shape refConstellation with its points
\* reordered by perm.
SimilarityPermuted(points, refConstellation, perm) ==
    calculateSimilarity(points,
        [refConstellation EXCEPT !.points = Permute(refConstellation.points, perm)])

\* The greedy assignment never chooses between equally near reference
\* points: from query point i on, with the reference indices in used taken,
\* one unused reference point is strictly nearest at every step.
RECURSIVE TieFreeFrom(_, _, _, _)
TieFreeFrom(normalizedUser, normalizedRef, i, used) ==
    IF i > Len(normalizedUser) THEN TRUE
    ELSE LET best == NearestUnused(normalizedUser[i], normalizedRef, used, 1,
                                   [idx |-> 0 - 1, dist |-> Infinity])
         IN  IF best.idx = 0 - 1 THEN TRUE
             ELSE /\ \A j \in (1..Len(normalizedRef)) \ used :
                        distanceSquared(normalizedUser[i], normalizedRef[j]) = best.dist
                            => j = best.idx
                  /\ TieFreeFrom(normalizedUser, normalizedRef, i + 1,
                                 used \cup {best.idx})

TieFree(points, refPoints) ==
    TieFreeFrom(normalizePoints(points), normalizePoints(refPoints), 1, {})

\* C10 as stated: reordering a shape's points never changes the similarity
\* of a query to it.
C10_PermutationInvariant ==
    (call = "calculateAllSimilarities" /\ Len(userPoints) > 0) =>
        \A k \in 1..Len(referenceConstellations) :
            \A perm \in Permutations(1..Len(referenceConstellations[k].points)) :
                SimilarityPermuted(userPoints, referenceConstellations[k], perm)
                    = Similarities(userPoints)[k]

\* C10, amended: reordering a shape's points does not change the similarity
\* of a query to it when no step of the greedy assignment finds two unused
\* reference points equally near (a tie goes to the lower reference index,
\* which the order decides).
C10_PermutationInvariantTieFree ==
    (call = "calculateAllSimilarities" /\ Len(userPoints) > 0) =>
        \A k \in 1..Len(referenceConstellations) :
            TieFree(userPoints, referenceConstellations[k].points) =>
                \A perm \in Permutations(1..Len(referenceConstellations[k].points)) :
                    SimilarityPermuted(userPoints, referenceConstellations[k], perm)
                        = Similarities(userPoints)[k]

\* C10 witness: a query without ties against a shape of three points, with a
\* similarity inside (0, 1), and a reordering of the shape that changes the
\* reference indices the query points are paired with.
C10_Witness ==
    /\ call = "calculateAllSimilarities"
    /\ \E k \in 1..Len(referenceConstellations) :
          LET refPoints == referenceConstellations[k].points
              normalizedUser == normalizePoints(userPoints)
          IN  /\ Len(refPoints) = 3
              /\ Len(userPoints) = 3
              /\ TieFree(userPoints, refPoints)
              /\ 0 < Similarities(userPoints)[k]
              /\ Similarities(userPoints)[k] < SimOne
              /\ \E perm \in Permutations(1..3) :
                    findBestCorrespondence(normalizedUser,
                        normalizePoints(Permute(refPoints, perm)))
                    # findBestCorrespondence(normalizedUser, normalizePoints(refPoints))

\* C10: a state where the order decides: a query with a tie whose similarity
\* to a shape changes when the shape's points are reordered.
C10_TieWitness ==
    /\ call = "calculateAllSimilarities"
    /\ \E k \in 1..Len(referenceConstellations) :
          /\ ~TieFree(userPoints, referenceConstellations[k].points)
          /\ \E perm \in Permutations(1..Len(referenceConstellations[k].points)) :
                SimilarityPermuted(userPoints, referenceConstellations[k], perm)
                    # Similarities(userPoints)[k]

\* |queryCount - referenceCount| for the query of the call and shape k.
CountDiff(k) == Abs(Len(userPoints) - Len(referenceConstellations[k].points))

\* The MatchResults returned for shape k.
ReturnedFor(k) ==
    {m \in Returned : m.constellationId = referenceConstellations[k].id}

\* C11: the similarity is the raw similarity times
\* max(0, 1 - 0.1 * |queryCount - referenceCount|), so it is 0 whenever the
\* counts differ by 10 or more, also in the MatchResults returned.
C11_PointCountPenalty ==
    call # "none" =>
        \A k \in 1..Len(referenceConstellations) :
            LET similarity == calculateSimilarity(userPoints, referenceConstellations[k])
            IN  /\ similarity = rawSimilarity(userPoints, referenceConstellations[k])
                                    * Max(0, PenaltyOne - CountDiff(k))
                /\ CountDiff(k) >= 10 => similarity = 0
                /\ (CountDiff(k) >= 10 /\ Len(userPoints) > 0) =>
                      \A m \in ReturnedFor(k) : m.similarity = 0

\* C11 witness: a one-point query ranked against a shape of 11 or more
\* points that it fits exactly (raw similarity 1): the shape's similarity
\* is 0, and a shape one point shorter scores above 0.
C11_Witness ==
    /\ call = "calculateAllSimilarities"
    /\ Len(userPoints) = 1
    /\ \E k \in 1..Len(referenceConstellations) :
          /\ CountDiff(k) >= 10
          /\ rawSimilarity(userPoints, referenceConstellations[k]) = ExpUnit
          /\ \E m \in ReturnedFor(k) : m.similarity = 0
    /\ \E k \in 1..Len(referenceConstellations) :
          /\ CountDiff(k) = 9
          /\ \E m \in ReturnedFor(k) : m.similarity > 0

\* C11, the other direction: a query 10 or more points longer than a shape
\* it fits exactly scores 0 against it.
C11_LongQueryWitness ==
    /\ call = "calculateAllSimilarities"
    /\ \E k \in 1..Len(referenceConstellations) :
          /\ Len(userPoints) >= Len(referenceConstellations[k].points) + 10
          /\ rawSimilarity(userPoints, referenceConstellations[k]) = ExpUnit
          /\ \E m \in ReturnedFor(k) : m.similarity = 0

\* C12: of two shapes with the same positive raw similarity to the query,
\* the one whose point count is one further from the query's has the
\* strictly lower similarity, for differences up to 10, where it is 0.
C12_PenaltyMonotone ==
    call # "none" =>
        \A k, j \in 1..Len(referenceConstellations) :
            (/\ rawSimilarity(userPoints, referenceConstellations[k])
                    = rawSimilarity(userPoints, referenceConstellations[j])
             /\ rawSimilarity(userPoints, referenceConstellations[k]) > 0
             /\ CountDiff(j) = CountDiff(k) + 1
             /\ CountDiff(j) <= 10) =>
                /\ calculateSimilarity(userPoints, referenceConstellations[j])
                       < calculateSimilarity(userPoints, referenceConstellations[k])
                /\ calculateSimilarity(userPoints, referenceConstellations[j]) >= 0
                /\ CountDiff(j) = 10 =>
                       calculateSimilarity(userPoints, referenceConstellations[j]) = 0

\* C12 witness: two shapes of equal positive raw similarity at differences 9
\* and 10, ranked: the first above 0, the second at 0.
C12_Witness ==
    /\ call = "calculateAllSimilarities"
    /\ \E k, j \in 1..Len(referenceConstellations) :
          /\ rawSimilarity(userPoints, referenceConstellations[k])
                 = rawSimilarity(userPoints, referenceConstellations[j])
          /\ rawSimilarity(userPoints, referenceConstellations[k]) > 0
          /\ CountDiff(k) = 9
          /\ CountDiff(j) = 10
          /\ \E m \in ReturnedFor(k) : m.similarity > 0
          /\ \E m \in ReturnedFor(j) : m.similarity = 0

\* C12, the first step: two shapes of equal positive raw similarity at
\* differences 0 and 1.
C12_FirstStepWitness ==
    /\ call = "calculateAllSimilarities"
    /\ \E k, j \in 1..Len(referenceConstellations) :
          /\ rawSimilarity(userPoints, referenceConstellations[k])
                 = rawSimilarity(userPoints, referenceConstellations[j])
          /\ rawSimilarity(userPoints, referenceConstellations[k]) > 0
          /\ CountDiff(k) = 0
          /\ CountDiff(j) = 1
          /\ \E m \in ReturnedFor(k) : m.similarity = SimOne
          /\ \E m \in ReturnedFor(j) : m.similarity < SimOne

\* points turned by 90 degrees about their centroid.
Rotate90(points) ==
    LET centroid == getCentroid(points)
    IN  [i \in 1..Len(points) |->
            [x |-> RSub(centroid.x, RSub(points[i].y, centroid.y)),
             y |-> RAdd(centroid.y, RSub(points[i].x, centroid.x))]]

\* C13: the matcher is not rotation-invariant: a query that is a library
\* shape's own three points scores 1 against the shape, and turned by 90
\* degrees about its centroid it scores strictly less.
C13_NotRotationInvariant ==
    \A k \in 1..Len(referenceConstellations) :
        (/\ call = "calculateAllSimilarities"
         /\ Len(userPoints) = 3
         /\ userPoints = referenceConstellations[k].points) =>
            /\ calculateSimilarity(userPoints, referenceConstellations[k]) = SimOne
            /\ calculateSimilarity(Rotate90(userPoints), referenceConstellations[k])
                   < SimOne
            /\ \A m \in ReturnedFor(k) :
                  \A r \in {e \in {calculateAllSimilarities(Rotate90(userPoints))[i] :
                                      i \in 1..Len(referenceConstellations)} :
                               e.constellationId = m.constellationId} :
                      r.similarity < m.similarity

\* C13 witness: the triangle's own points ranked against the library that
\* holds the triangle alone, with similarity 1.
C13_Witness ==
    /\ call = "calculateAllSimilarities"
    /\ referenceConstellations = <<triangle>>
    /\ userPoints = triangle.points
    /\ result[1].similarity = SimOne
    /\ Rotate90(userPoints) # userPoints

\* C14: with the triangle alone in the library, findBestMatch on the exact
\* query and on the translated query returns the triangle with similarity
\* 1, under every threshold up to 1.
C14_ScenarioMatch ==
    (/\ call = "findBestMatch"
     /\ referenceConstellations = <<scenarioTriangle>>
     /\ userPoints \in {exactQuery, translatedQuery}
     /\ threshold <= SimOne) =>
        /\ result # null
        /\ result = MatchResult(scenarioTriangle, SimOne)
        /\ result.constellationId = "triangle"

\* C14 witness: the translated query matched under the default threshold.
C14_Witness ==
    /\ call = "findBestMatch"
    /\ referenceConstellations = <<scenarioTriangle>>
    /\ userPoints = translatedQuery
    /\ threshold = (3 * SimOne) \div 10
    /\ result # null
    /\ result.similarity = SimOne

\* C14, the exact query matched under the threshold 1.
C14_ExactWitness ==
    /\ call = "findBestMatch"
    /\ referenceConstellations = <<scenarioTriangle>>
    /\ userPoints = exactQuery
    /\ threshold = SimOne
    /\ result # null
    /\ result.similarity = SimOne

\* C15: with the triangle alone in the library, the reflected query scores
\* strictly below 0.9, in calculateSimilarity and in what is returned.
C15_ScenarioReflected ==
    (/\ call # "none"
     /\ referenceConstellations = <<scenarioTriangle>>
     /\ userPoints = reflectedQuery) =>
        /\ 10 * calculateSimilarity(userPoints, scenarioTriangle) < 9 * SimOne
        /\ \A m \in Returned : 10 * m.similarity < 9 * SimOne
        /\ (call = "findBestMatch" /\ 10 * threshold >= 9 * SimOne) => result = null

\* C15 witness: the reflected query ranked, with a similarity between 0 and
\* 0.9.
C15_Witness ==
    /\ call = "calculateAllSimilarities"
    /\ referenceConstellations = <<scenarioTriangle>>
    /\ userPoints = reflectedQuery
    /\ Len(result) = 1
    /\ result[1].similarity > 0
    /\ 10 * result[1].similarity < 9 * SimOne


\* getScale takes the branch "|| 1" for the centred points of a set whose
\* points coincide: totalDist / n is 0.
FallsBack(points) ==
    Bind(Residues(centerPointsDouble(points)), LAMBDA centered :
         RDivInt(SumDist(centered, Len(centered)), Len(centered)).n = 0)

\* The point sets of a call: the query and the points of every shape.
PointSets ==
    {userPoints} \cup {referenceConstellations[k].points :
                          k \in 1..Len(referenceConstellations)}

\* C16: when all points of a set coincide (a single-point query included),
\* the scale falls back to 1, every normalized point is the origin, and every
\* similarity of the call is a number from 0 to 1.
C16_DegenerateRecovered ==
    call # "none" =>
        \A points \in PointSets :
            Coincident(points) =>
                /\ FallsBack(points)
                /\ \A i \in 1..Len(points) :
                       normalizePoints(points)[i] = [x |-> 0, y |-> 0]
                /\ \A k \in 1..Len(referenceConstellations) :
                       calculateSimilarity(userPoints, referenceConstellations[k])
                           \in 0..SimOne


\* C17: whatever sequence of findBestMatch, calculateAllSimilarities,
\* getConstellationById and getConstellationByName calls is made, no step
\* changes the library (its shapes, their order, their points), and no call
\* changes the array the caller passes.
C17_NothingMutated ==
    [][/\ referenceConstellations' = referenceConstellations
       /\ call' # "none" => userPoints' = userPoints]_vars

\* C17 witness: a query has been ranked against a library of several shapes
\* and the ranking is in another order than the library: an array was sorted.
C17_Witness ==
    /\ call = "calculateAllSimilarities"
    /\ userPoints # <<>>
    /\ Len(result) > 1
    /\ result[1].constellationId # referenceConstellations[1].id

\* C17 witness: a lookup has returned a shape of the library.
C17_LookupWitness ==
    /\ call = "getConstellationByName"
    /\ userPoints # <<>>
    /\ Len(referenceConstellations) > 1
    /\ result = referenceConstellations[Len(referenceConstellations)]

\* C18: for every shape s of the library getConstellationById(s.id) and
\* getConstellationByName(s.name) are s itself; for an id or a name that no
\* shape carries they are undefined.
C18_LookupRoundTrip ==
    /\ \A k \in 1..Len(referenceConstellations) :
           /\ getConstellationById(referenceConstellations[k].id)
                  = referenceConstellations[k]
           /\ getConstellationByName(referenceConstellations[k].name)
                  = referenceConstellations[k]
    /\ \A id \in LookupIds :
           (\A k \in 1..Len(referenceConstellations) :
                referenceConstellations[k].id # id)
               => getConstellationById(id) = undefined
    /\ \A name \in LookupNames :
           (\A k \in 1..Len(referenceConstellations) :
                referenceConstellations[k].name # name)
               => getConstellationByName(name) = undefined

\* C18 witness: against the shipped library a lookup by id has returned the
\* last shape.
C18_Witness ==
    /\ referenceConstellations = ShippedConstellations
    /\ call = "getConstellationById"
    /\ result = gyozaConstellation

\* C18 witness: against the shipped library a lookup by a name that no shape
\* carries has returned undefined.
C18_NotFoundWitness ==
    /\ referenceConstellations = ShippedConstellations
    /\ call = "getConstellationByName"
    /\ result = undefined


\* C19: every shape of referenceConstellations has an id that no other shape
\* has, exactly 7 points, and every coordinate of every point is in [0, 1].
C19_LibraryContract ==
    \A k \in 1..Len(referenceConstellations) :
        LET c == referenceConstellations[k]
        IN  /\ \A j \in 1..Len(referenceConstellations) :
                   j # k => referenceConstellations[j].id # c.id
            /\ Len(c.points) = 7
            /\ \A i \in 1..Len(c.points) :
                   /\ 0 <= c.points[i].x.n /\ c.points[i].x.n <= c.points[i].x.d
                   /\ 0 <= c.points[i].y.n /\ c.points[i].y.n <= c.points[i].y.d

\* C19 witness: the shipped library of seven shapes, matched against.
C19_Witness ==
    /\ referenceConstellations = ShippedConstellations
    /\ Len(referenceConstellations) = 7
    /\ call = "findBestMatch"
    /\ result # null


\* The reference indices that the query points before the i-th have taken.
TakenBefore(correspondence, i) ==
    {correspondence[j] : j \in 1..(i - 1)} \ {0 - 1}

\* correspondence is the greedy one: the i-th query point has the nearest of
\* the reference points that the earlier query points left, the lowest index
\* among equally near ones, and -1 if none is left.
Greedy(normalizedUser, normalizedRef, correspondence) ==
    /\ Len(correspondence) = Len(normalizedUser)
    /\ \A i \in 1..Len(normalizedUser) :
           LET free == (1..Len(normalizedRef)) \ TakenBefore(correspondence, i)
           IN  IF free = {} THEN correspondence[i] = 0 - 1
               ELSE /\ correspondence[i] \in free
                    /\ \A k \in free :
                           LET mine  == distanceSquared(normalizedUser[i],
                                            normalizedRef[correspondence[i]])
                               other == distanceSquared(normalizedUser[i],
                                            normalizedRef[k])
                           IN  mine < other \/ (mine = other /\ correspondence[i] <= k)

\* Some query point had two equally near nearest reference points to choose
\* from.
TieBroken(normalizedUser, normalizedRef, correspondence) ==
    \E i \in 1..Len(normalizedUser) :
        \E k \in (1..Len(normalizedRef)) \ TakenBefore(correspondence, i) :
            /\ correspondence[i] # 0 - 1
            /\ k # correspondence[i]
            /\ distanceSquared(normalizedUser[i], normalizedRef[k])
                   = distanceSquared(normalizedUser[i],
                                     normalizedRef[correspondence[i]])

\* C20: findBestCorrespondence takes the query points in input order and
\* gives each the reference point of smallest squared distance among those
\* not yet used, the one of lowest index when several are equally near.
C20_GreedyCorrespondence ==
    call # "none" =>
        \A k \in 1..Len(referenceConstellations) :
            Bind(normalizePoints(userPoints), LAMBDA normalizedUser :
            Bind(normalizePoints(referenceConstellations[k].points), LAMBDA normalizedRef :
                 Greedy(normalizedUser, normalizedRef,
                        findBestCorrespondence(normalizedUser, normalizedRef))))

\* C20 witness: a call in which a query point had equally near reference
\* points to choose from, and a later query point found none left.
C20_Witness ==
    /\ call # "none"
    /\ \E k \in 1..Len(referenceConstellations) :
           Bind(normalizePoints(userPoints), LAMBDA normalizedUser :
           Bind(normalizePoints(referenceConstellations[k].points), LAMBDA normalizedRef :
           Bind(findBestCorrespondence(normalizedUser, normalizedRef), LAMBDA correspondence :
                /\ TieBroken(normalizedUser, normalizedRef, correspondence)
                /\ correspondence[Len(normalizedUser)] = 0 - 1)))


\* correspondence gives exactly the first min(|Q|, |R|) query points a
\* reference index, no index twice, and -1 to every later query point; the
\* later points add nothing to calculateMSE's sum and count.
InjectionOfPrefix(normalizedUser, normalizedRef, correspondence) ==
    LET paired == Min(Len(normalizedUser), Len(normalizedRef))
    IN  /\ Len(correspondence) = Len(normalizedUser)
        /\ \A i \in 1..paired : correspondence[i] \in 1..Len(normalizedRef)
        /\ \A i, j \in 1..paired : i # j => correspondence[i] # correspondence[j]
        /\ \A i \in (paired + 1)..Len(normalizedUser) : correspondence[i] = 0 - 1
        /\ SumErrors(normalizedUser, normalizedRef, correspondence,
                     Len(normalizedUser)).count = paired
        /\ SumErrors(normalizedUser, normalizedRef, correspondence,
                     Len(normalizedUser)).totalError
               = SumErrors(normalizedUser, normalizedRef, correspondence,
                           paired).totalError

\* C21: the correspondence is an injection from a prefix of the query: the
\* first min(|Q|, |R|) query points receive pairwise distinct reference
\* indices, every later query point is left at -1 and stays out of the MSE.
C21_InjectionOfPrefix ==
    call # "none" =>
        \A k \in 1..Len(referenceConstellations) :
            Bind(normalizePoints(userPoints), LAMBDA normalizedUser :
            Bind(normalizePoints(referenceConstellations[k].points), LAMBDA normalizedRef :
                 InjectionOfPrefix(normalizedUser, normalizedRef,
                     findBestCorrespondence(normalizedUser, normalizedRef))))

\* C21 witness: a query of three points matched against a shape of two: two
\* points are paired, the third is not.
C21_Witness ==
    /\ call # "none"
    /\ Len(userPoints) = 3
    /\ \E k \in 1..Len(referenceConstellations) :
           /\ Len(referenceConstellations[k].points) = 2
           /\ Bind(normalizePoints(userPoints), LAMBDA normalizedUser :
              Bind(normalizePoints(referenceConstellations[k].points), LAMBDA normalizedRef :
              Bind(findBestCorrespondence(normalizedUser, normalizedRef), LAMBDA correspondence :
                   /\ correspondence[1] # 0 - 1
                   /\ correspondence[2] # 0 - 1
                   /\ correspondence[3] = 0 - 1)))


\* The sum of the squared distances between the query points whose index is
\* in S and the reference points they correspond to.
RECURSIVE SquaredDistances(_, _, _, _)
SquaredDistances(normalizedUser, normalizedRef, correspondence, S) ==
    IF S = {} THEN 0
    ELSE LET i == CHOOSE j \in S : TRUE
         IN  distanceSquared(normalizedUser[i], normalizedRef[correspondence[i]])
                 + SquaredDistances(normalizedUser, normalizedRef, correspondence,
                                    S \ {i})

\* C22: the MSE is the sum of the squared distances of the corresponded pairs
\* divided by the number of those pairs, not by the length of the query; with
\* no corresponded pair the MSE is +infinity and the similarity is exactly 0.
C22_MeanOverPairs ==
    call # "none" =>
        \A k \in 1..Len(referenceConstellations) :
            Bind(normalizePoints(userPoints), LAMBDA normalizedUser :
            Bind(normalizePoints(referenceConstellations[k].points), LAMBDA normalizedRef :
            Bind(findBestCorrespondence(normalizedUser, normalizedRef), LAMBDA correspondence :
                 LET pairs == {i \in 1..Len(normalizedUser) : correspondence[i] # 0 - 1}
                     mse   == calculateMSE(normalizedUser, normalizedRef, correspondence)
                 IN  IF pairs = {}
                     THEN /\ mse = Infinity
                          /\ calculateSimilarity(userPoints, referenceConstellations[k]) = 0
                     ELSE mse = RoundDiv(SquaredDistances(normalizedUser, normalizedRef,
                                                          correspondence, pairs),
                                         Cardinality(pairs)))))

\* C22 witness: a query of three points scored against a shape of two points
\* that it does not fit: two pairs, a mean above 0.
C22_Witness ==
    /\ call = "calculateAllSimilarities"
    /\ Len(userPoints) = 3
    /\ \E k \in 1..Len(referenceConstellations) :
           /\ Len(referenceConstellations[k].points) = 2
           /\ Bind(normalizePoints(userPoints), LAMBDA normalizedUser :
              Bind(normalizePoints(referenceConstellations[k].points), LAMBDA normalizedRef :
                   calculateMSE(normalizedUser, normalizedRef,
                       findBestCorrespondence(normalizedUser, normalizedRef)) \in 1..(Infinity - 1)))

\* C22 witness: a query ranked against a library with a shape that has no
\* points: no pair, similarity 0.
C22_NoPairWitness ==
    /\ call = "calculateAllSimilarities"
    /\ Len(userPoints) > 0
    /\ \E i \in 1..Len(result) :
           /\ result[i].constellationId = "blank"
           /\ result[i].similarity = 0


\* Three points on a line in the order left, middle, right, and the
\* permutation that exchanges the last two.
lineQuery == <<Pt(0, 0), Pt(1, 0), Pt(2, 0)>>
exchangeLastTwo == <<1, 3, 2>>

\* The total squared distance of the pairs the greedy correspondence of
\* points and the shape makes.
GreedyError(points, refConstellation) ==
    Bind(normalizePoints(points), LAMBDA normalizedUser :
    Bind(normalizePoints(refConstellation.points), LAMBDA normalizedRef :
         SumErrors(normalizedUser, normalizedRef,
                   findBestCorrespondence(normalizedUser, normalizedRef),
                   Len(normalizedUser)).totalError))

\* C23: the greedy assignment depends on the order of the query: the three
\* points of a line score less against the triangle in the order left,
\* middle, right than with the last two exchanged, though no step meets
\* equally near reference points; in the first order the greedy pairs have a
\* larger total squared distance than the best assignment.
C23_OrderDependent ==
    \A k \in 1..Len(referenceConstellations) :
        (/\ call = "calculateAllSimilarities"
         /\ userPoints = lineQuery
         /\ referenceConstellations[k] = triangle) =>
            /\ calculateSimilarity(userPoints, triangle)
                   < calculateSimilarity(Permute(userPoints, exchangeLastTwo), triangle)
            /\ \A m \in ReturnedFor(k) :
                   m.similarity
                       < calculateSimilarity(Permute(userPoints, exchangeLastTwo), triangle)
            /\ TieFree(userPoints, triangle.points)
            /\ TieFree(Permute(userPoints, exchangeLastTwo), triangle.points)
            /\ GreedyError(userPoints, triangle)
                   > MinimalError(normalizePoints(userPoints),
                                  normalizePoints(triangle.points))

\* C23 witness: the line ranked against the library that holds the triangle
\* alone, with a similarity above 0.
C23_Witness ==
    /\ call = "calculateAllSimilarities"
    /\ referenceConstellations = <<triangle>>
    /\ userPoints = lineQuery
    /\ result[1].similarity > 0
    /\ Permute(userPoints, exchangeLastTwo) # userPoints


\* A shape that has the given points and nothing else.
PointsAlone(points) == [id |-> "", name |-> "", points |-> points, svgPath |-> ""]

\* C24: the similarity reported for a shape is the one computed from the
\* query and the shape's points alone, whatever else the library holds and
\* in whatever order.
C24_ScoredIndependently ==
    /\ \A m \in Returned :
           \E k \in PositionsOf(m) :
               m.similarity = calculateSimilarity(userPoints,
                                  PointsAlone(referenceConstellations[k].points))
    /\ call = "calculateAllSimilarities" /\ Len(userPoints) > 0 =>
           \A k \in 1..Len(referenceConstellations) :
               \E m \in ReturnedFor(k) :
                   m.similarity = calculateSimilarity(userPoints,
                                      PointsAlone(referenceConstellations[k].points))

\* C24 witness: a query ranked against a library that holds a shape of one
\* point before the segment, which scores above 0 and less than 1.
C24_Witness ==
    /\ call = "calculateAllSimilarities"
    /\ referenceConstellations = <<dot, corner, segment>>
    /\ Len(userPoints) = 3
    /\ \E m \in ReturnedFor(3) : m.similarity > 0 /\ m.similarity < SimOne


\* C25: every MatchResult that findBestMatch or calculateAllSimilarities
\* returns has the id, the name and the path of one shape of the library, as
\* they are in the library, and the similarity computed for that shape.
C25_ResultOfOneShape ==
    \A m \in Returned :
        \E k \in 1..Len(referenceConstellations) :
            /\ m.constellationId = referenceConstellations[k].id
            /\ m.constellationName = referenceConstellations[k].name
            /\ m.svgPath = referenceConstellations[k].svgPath
            /\ m.similarity = calculateSimilarity(userPoints, referenceConstellations[k])
            /\ DOMAIN m = {"constellationId", "constellationName", "similarity", "svgPath"}

\* C25 witness: findBestMatch has returned the second shipped shape, and a
\* ranking has all seven.
C25_Witness ==
    /\ call = "findBestMatch"
    /\ result # null
    /\ result.constellationId = irukaConstellation.id
    /\ result.constellationName = irukaConstellation.name
    /\ result.svgPath = irukaConstellation.svgPath

C25_RankingWitness ==
    /\ call = "calculateAllSimilarities"
    /\ Len(result) = 7
    /\ result[1].similarity > result[7].similarity


\* C26: for a query that is not empty and a threshold t, findBestMatch(Q, t)
\* is not null exactly when calculateAllSimilarities(Q) has a first element
\* and its similarity is at least t, and then it is that first element.
C26_ApisAgree ==
    /\ (call = "findBestMatch" /\ Len(userPoints) > 0) =>
           Bind(calculateAllSimilarities(userPoints), LAMBDA ranking :
                /\ result # null <=>
                       (Len(ranking) > 0 /\ ranking[1].similarity >= threshold)
                /\ result # null => result = ranking[1])
    /\ (call = "calculateAllSimilarities" /\ Len(userPoints) > 0) =>
           \A t \in Thresholds :
               Bind(findBestMatch(userPoints, t), LAMBDA bestMatch :
                    /\ bestMatch # null <=>
                           (Len(result) > 0 /\ result[1].similarity >= t)
                    /\ bestMatch # null => bestMatch = result[1])

\* C26 witness: findBestMatch has returned a shape that shares the largest
\* similarity with another shape of the library.
C26_Witness ==
    /\ call = "findBestMatch"
    /\ result # null
    /\ result.similarity > 0
    /\ \E k \in 1..Len(referenceConstellations) :
           /\ referenceConstellations[k].id # result.constellationId
           /\ calculateSimilarity(userPoints, referenceConstellations[k])
                  = result.similarity

\* C26 witness: findBestMatch has returned null though the library is not
\* empty: the best similarity is below the threshold.
C26_BelowWitness ==
    /\ call = "findBestMatch"
    /\ Len(userPoints) > 0
    /\ Len(referenceConstellations) > 1
    /\ threshold < SimOne
    /\ result = null


\* C27: for a query that is not empty, a library that is not empty and a
\* threshold of 0 or below, findBestMatch does not return null; when every
\* shape scores 0 it returns the first shape of the library with similarity 0.
C27_NeverNoneAtZero ==
    (/\ call = "findBestMatch"
     /\ Len(userPoints) > 0
     /\ Len(referenceConstellations) > 0
     /\ threshold <= 0) =>
        /\ result # null
        /\ (\A k \in 1..Len(referenceConstellations) :
                calculateSimilarity(userPoints, referenceConstellations[k]) = 0)
               => result = MatchResult(referenceConstellations[1], 0)

\* C27 witness: under the threshold 0 a query whose point count differs by 10
\* or more from that of both shapes has been given the first shape, with
\* similarity 0.
C27_Witness ==
    /\ call = "findBestMatch"
    /\ threshold = 0
    /\ Len(referenceConstellations) = 2
    /\ \A k \in 1..2 : CountDiff(k) >= 10
    /\ result = MatchResult(referenceConstellations[1], 0)


\* The reorderings of the points of shape k of the library.
Reorderings(k) ==
    {Permute(referenceConstellations[k].points, perm) :
        perm \in Permutations(1..Len(referenceConstellations[k].points))}

\* points, matched against refConstellation, are paired one to one with
\* reference points at distance 0, so the MSE is 0 and the similarity 1.
MatchesItself(points, refConstellation) ==
    LET normalizedUser == normalizePoints(points)
        normalizedRef == normalizePoints(refConstellation.points)
        correspondence == findBestCorrespondence(normalizedUser, normalizedRef)
    IN  /\ \A i \in 1..Len(points) :
              /\ correspondence[i] \in 1..Len(normalizedRef)
              /\ distanceSquared(normalizedUser[i],
                                 normalizedRef[correspondence[i]]) = 0
        /\ \A i, j \in 1..Len(points) :
              correspondence[i] = correspondence[j] => i = j
        /\ calculateMSE(normalizedUser, normalizedRef, correspondence) = 0
        /\ calculateSimilarity(points, refConstellation) = SimOne

\* C28: self-match holds for any ordering of the query: every reordering of
\* the points of a shape of the library has similarity 1 to that shape, each
\* query point finding an unused reference point at distance 0 (evaluated
\* for the whole library while no call is in progress); and a call made
\* with such a reordering returns similarity 1 for the shape.
C28_SelfMatchAnyOrder ==
    \A k \in 1..Len(referenceConstellations) :
        /\ call = "none" =>
              \A points \in Reorderings(k) :
                  MatchesItself(points, referenceConstellations[k])
        /\ (call # "none" /\ userPoints \in Reorderings(k)) =>
              /\ MatchesItself(userPoints, referenceConstellations[k])
              /\ \A m \in Returned :
                    m.constellationId = referenceConstellations[k].id =>
                        m.similarity = SimOne

\* C28 witness: the triangle's points with the first moved to the end are
\* ranked against a library that holds the triangle: the correspondence is
\* not the identity and the triangle comes first with similarity 1.
C28_Witness ==
    /\ call = "calculateAllSimilarities"
    /\ referenceConstellations = <<segment, triangle, shifted>>
    /\ userPoints = Rotate(triangle.points, 1)
    /\ userPoints # triangle.points
    /\ findBestCorrespondence(normalizePoints(userPoints),
                              normalizePoints(triangle.points)) = <<2, 3, 1>>
    /\ result[1].constellationId = "triangle"
    /\ result[1].similarity = SimOne


\* No diary entry is in the entryIds of two stored constellations.
UsedOnce ==
    \A i, j \in 1..Len(constellations) :
        i # j =>
            \A a \in 1..Len(constellations[i].entryIds) :
                \A b \in 1..Len(constellations[j].entryIds) :
                    constellations[i].entryIds[a] # constellations[j].entryIds[b]

\* Whenever getUnassignedEntries returns, it returns at most Limit entries
\* and none that a stored constellation uses.
ReturnsUnused ==
    \A t \in TaskIds :
        (tasks[t].pc = "readEntries" /\ tasks'[t].pc = "loaded") =>
            /\ Len(tasks'[t].unassigned) <= Limit
            /\ \A i \in 1..Len(tasks'[t].unassigned) :
                  tasks'[t].unassigned[i].id \notin UsedIds(constellations')

\* C29: after any sequence of diary-entry additions and constellation
\* completions, a completion fired again before the reload finishes
\* included, every diary entry id is in the entryIds of at most one stored
\* constellation, and getUnassignedEntries never returns an entry a
\* constellation uses nor more than its limit of 7.
C29_EntriesUsedOnce == []UsedOnce /\ [][ReturnsUnused]_vars

\* C29, the first half alone: entries are in at most one constellation.
C29_UsedOnce == UsedOnce

\* C29, the second half alone: what getUnassignedEntries returns.
C29_ReturnsUnused == [][ReturnsUnused]_vars


\* The p5 instances made by hook calls of component c that are not removed.
AliveOf(c) ==
    {i \in 1..Len(instances) : instances[i].hook = c /\ ~instances[i].removed}

\* C30: useP5 never leaks p5 instances: across mounts, effect cleanups and
\* re-mounts, at most one instance made by a hook call is alive at a time,
\* the only one alive is the one p5InstanceRef holds (every replaced
\* instance has had remove() called), and none is alive after the cleanup
\* or after unmount.
C30_NoLeak ==
    \A c \in Components :
        /\ Cardinality(AliveOf(c)) <= 1
        /\ \A i \in AliveOf(c) : hooks[c].p5InstanceRef = i
        /\ hooks[c].phase \in {"unmounted", "cleaned"} => AliveOf(c) = {}

\* C30 witness: a component after a double mount, with the first instance
\* removed and the second alive and held by the ref, beside a component
\* that was mounted with an instance and is unmounted.
C30_Witness ==
    \E c, d \in Components :
        /\ c # d
        /\ hooks[c].phase = "effect"
        /\ hooks[c].version = "initialized"
        /\ \E i, j \in 1..Len(instances) :
              /\ i < j
              /\ instances[i].hook = c /\ instances[i].removed
              /\ instances[j].hook = c /\ ~instances[j].removed
              /\ hooks[c].p5InstanceRef = j
        /\ hooks[d].phase = "unmounted"
        /\ \E i \in 1..Len(instances) : instances[i].hook = d /\ instances[i].removed

=============================================================================
